---- MODULE Spec2Model ----
(***************************************************************************)
(* Model of the codebook upload-to-analysis pipeline                       *)
(* (src/src/services/codebook_processor.py and its collaborators).         *)
(*                                                                         *)
(* Python strings are sequences of one-character strings, so that          *)
(* strip(), lower(), f-string formatting and concatenation are computed.   *)
(* A Python dict is a function whose domain is the set of keys present;    *)
(* the metadata dict normalize_items fills is held as its entries in       *)
(* insertion order, <<key1, value1, key2, value2, ...>>.                   *)
(* Python's None is the distinguished value None.                          *)
(***************************************************************************)
EXTENDS Integers, Sequences, FiniteSets, TLC

(* ------------------------------ bounds --------------------------------- *)

\* number of upload requests (each accepted one schedules a process_upload run)
MaxUploads == 2
\* longest list of items a model response carries in SpecRecon
MaxItems == 3
\* number of set_active_version calls made in SpecActive
MaxActivations == 2
\* number of files uploaded in SpecParse, and their greatest number of columns
MaxParse == 1
MaxColumns == 3
\* number of requests made in SpecAuth
MaxRequests == 2

(* --------------------------- Python values ----------------------------- *)

\* Python's None: no string equals it (strings hold one-character elements)
None == <<"<None>">>

\* F(e) with the argument evaluated once, as Python evaluates an argument or
\* the right-hand side of an assignment before it is used
Let(e, F(_)) == CHOOSE r \in {F(x) : x \in {e}} : TRUE

\* dict.get(key, default)
Get(d, k, default) == IF k \in DOMAIN d THEN d[k] ELSE default

\* bool(v) for the values the pipeline tests: None, "" and {} are falsy
Truthy(v) == v # None /\ v # <<>>

\* a or b
Or(a, b) == IF Truthy(a) THEN a ELSE b

DigitChars == <<"0", "1", "2", "3", "4", "5", "6", "7", "8", "9">>

\* str(n) for n >= 0
RECURSIVE Digits(_)
Digits(n) ==
    IF n < 10 THEN <<DigitChars[n + 1]>>
    ELSE Digits(n \div 10) \o <<DigitChars[(n % 10) + 1]>>

RECURSIVE ZeroPad(_, _)
ZeroPad(s, width) == IF Len(s) >= width THEN s ELSE ZeroPad(<<"0">> \o s, width)

\* f"{n:04d}"
Format04d(n) == ZeroPad(Digits(n), 4)

\* the lower-case letter of each upper-case letter
LowerOf ==
    ("A" :> "a") @@ ("B" :> "b") @@ ("C" :> "c") @@ ("D" :> "d") @@ ("E" :> "e") @@ ("F" :> "f")
    @@ ("G" :> "g") @@ ("H" :> "h") @@ ("I" :> "i") @@ ("J" :> "j") @@ ("K" :> "k") @@ ("L" :> "l")
    @@ ("M" :> "m") @@ ("N" :> "n") @@ ("O" :> "o") @@ ("P" :> "p") @@ ("Q" :> "q") @@ ("R" :> "r")
    @@ ("S" :> "s") @@ ("T" :> "t") @@ ("U" :> "u") @@ ("V" :> "v") @@ ("W" :> "w") @@ ("X" :> "x")
    @@ ("Y" :> "y") @@ ("Z" :> "z")

LowerChar(c) == IF c \in DOMAIN LowerOf THEN LowerOf[c] ELSE c

\* str.lower()
Lower(s) == Let(s, LAMBDA v : [k \in 1..Len(v) |-> LowerChar(v[k])])

Whitespace == {" ", "\t", "\n", "\r"}

RECURSIVE LStrip(_)
LStrip(s) == IF s # <<>> /\ Head(s) \in Whitespace THEN LStrip(Tail(s)) ELSE s

RECURSIVE RStrip(_)
RStrip(s) ==
    IF s # <<>> /\ s[Len(s)] \in Whitespace THEN RStrip(SubSeq(s, 1, Len(s) - 1)) ELSE s

\* str.strip()
Strip(s) == Let(s, LAMBDA v : RStrip(LStrip(v)))

(* ----------------------- _build_item_records --------------------------- *)

UNCLASSIFIED == <<"U", "N", "C", "L", "A", "S", "S", "I", "F", "I", "E", "D", "-">>
ItemPrefix == <<"I", "t", "e", "m", " ">>
APP_OTHER == <<"o", "t", "h", "e", "r">>
APP_WATER == <<"w", "a", "t", "e", "r">>
APP_STORM_SEWER == <<"s", "t", "o", "r", "m", "_", "s", "e", "w", "e", "r">>
APP_SANITARY_SEWER == <<"s", "a", "n", "i", "t", "a", "r", "y", "_", "s", "e", "w", "e", "r">>

valid_apps == {APP_SANITARY_SEWER, APP_STORM_SEWER, APP_WATER, APP_OTHER}

\* the dict built by the first loop: the last row whose stripped, lower-cased
\* label is the key wins; rows with an empty key are not entered
OriginalLookupKeys(original_items) ==
    {Lower(Strip(Get(original_items[k], "original_label", <<>>))) :
        k \in 1..Len(original_items)} \ {<<>>}

\* OriginalLookup keeping the first row of each key instead of the last
OriginalLookup_FirstWins(original_items) ==
    [key \in OriginalLookupKeys(original_items) |->
        LET idx == {k \in 1..Len(original_items) :
                        Lower(Strip(Get(original_items[k], "original_label", <<>>))) = key}
            first == CHOOSE k \in idx : \A m \in idx : k <= m
        IN original_items[first]]

OriginalLookup(original_items) ==
    [key \in OriginalLookupKeys(original_items) |->
        LET idx == {k \in 1..Len(original_items) :
                        Lower(Strip(Get(original_items[k], "original_label", <<>>))) = key}
            last == CHOOSE k \in idx : \A m \in idx : m <= k
        IN original_items[last]]

\* SuffixedCode with the membership test of the while loop dropped
SuffixedCode_NoLoop(base_code, counter, seen_codes) ==
    base_code \o <<"-">> \o Digits(counter)

\* the while loop: base_code-1, base_code-2, ... until not in seen_codes
RECURSIVE SuffixedCode(_, _, _)
SuffixedCode(base_code, counter, seen_codes) ==
    LET code == base_code \o <<"-">> \o Digits(counter)
    IN IF code \in seen_codes
       THEN SuffixedCode(base_code, counter + 1, seen_codes)
       ELSE code

UniqueCode(code, seen_codes) ==
    IF code \in seen_codes THEN SuffixedCode(code, 1, seen_codes) ELSE code

\* CandidateCode numbering an item without code by its 0-based index
CandidateCode_ZeroBased(llm_item, pos) ==
    Get(llm_item, "code", UNCLASSIFIED \o Format04d(pos - 1))

\* the candidate code of the item at 1-based position pos (enumerate index pos-1)
CandidateCode(llm_item, pos) == Get(llm_item, "code", UNCLASSIFIED \o Format04d(pos))

ItemLabel(llm_item, pos) == Get(llm_item, "original_label", ItemPrefix \o Digits(pos))

\* ValidatedApplication coercing an absent or empty application as well
ValidatedApplication_CoercesAbsent(application) ==
    IF application \notin valid_apps THEN APP_OTHER ELSE application

\* lines 174-177: a non-empty application outside valid_apps becomes "other"
ValidatedApplication(application) ==
    IF Truthy(application) /\ application \notin valid_apps THEN APP_OTHER ELSE application

\* BuildRecord with the original row's fields taking precedence over the model's
BuildRecord_OriginalFirst(llm_item, pos, code, original_lookup, version_id, client_id) ==
    Let(ItemLabel(llm_item, pos), LAMBDA original_label :
    Let(Get(original_lookup, Lower(Strip(original_label)), <<>>), LAMBDA orig :
    Let(Or(Get(orig, "application", None), Get(llm_item, "application", None)),
        LAMBDA application :
       [version_id |-> version_id,
        client_id |-> client_id,
        original_label |-> original_label,
        description |-> Or(Get(orig, "description", None), Get(llm_item, "description", None)),
        code |-> code,
        application |-> ValidatedApplication(application),
        csi_division |-> Get(llm_item, "csi_division", None),
        csi_section |-> Get(llm_item, "csi_section", None),
        metadata |-> Or(Get(orig, "metadata", None), Get(llm_item, "metadata", None))])))

BuildRecord(llm_item, pos, code, original_lookup, version_id, client_id) ==
    Let(ItemLabel(llm_item, pos), LAMBDA original_label :
    Let(Get(original_lookup, Lower(Strip(original_label)), <<>>), LAMBDA orig :
    Let(Or(Get(llm_item, "application", None), Get(orig, "application", None)),
        LAMBDA application :
       [version_id |-> version_id,
        client_id |-> client_id,
        original_label |-> original_label,
        description |-> Or(Get(llm_item, "description", None), Get(orig, "description", None)),
        code |-> code,
        application |-> ValidatedApplication(application),
        csi_division |-> Get(llm_item, "csi_division", None),
        csi_section |-> Get(llm_item, "csi_section", None),
        metadata |-> Or(Get(llm_item, "metadata", None), Get(orig, "metadata", None))])))

RECURSIVE BuildLoop(_, _, _, _, _, _, _)
BuildLoop(llm_items, pos, seen_codes, records, original_lookup, version_id, client_id) ==
    IF pos > Len(llm_items) THEN records
    ELSE LET code == UniqueCode(CandidateCode(llm_items[pos], pos), seen_codes)
         IN BuildLoop(llm_items, pos + 1, seen_codes \cup {code},
                      Append(records, BuildRecord(llm_items[pos], pos, code,
                                                  original_lookup, version_id, client_id)),
                      original_lookup, version_id, client_id)

\* original_label.strip() raises AttributeError on a null label
BuildRaises(llm_items) ==
    \E pos \in 1..Len(llm_items) : ItemLabel(llm_items[pos], pos) = None

\* _build_item_records stamping every record with version 1 of the store
BuildItemRecords_FirstVersion(llm_items, original_items, version_id, client_id) ==
    BuildLoop(llm_items, 1, {}, <<>>, OriginalLookup(original_items), 1, client_id)

BuildItemRecords(llm_items, original_items, version_id, client_id) ==
    BuildLoop(llm_items, 1, {}, <<>>, OriginalLookup(original_items), version_id, client_id)

(* ------------------------------ the LLM -------------------------------- *)

\* str(LLMAPIError(...)): the message APIError.__init__ hands to Exception
LLM_ERROR_MESSAGE == "LLM service returned an error"
\* str(AttributeError) of None.strip() in _build_item_records
BUILD_ERROR_MESSAGE == "'NoneType' object has no attribute 'strip'"
\* str(e) of an exception raised by the storage client
StoreErrors == {"store error"}

BATCH_SIZE == 100

\* what one chat.completions.create call can do: fail, answer with text that
\* is not JSON, answer with JSON that is not an object (an array, a string, a
\* number), or answer with a JSON object (body)
ApiError == [kind |-> "api_error"]
InvalidJson == [kind |-> "invalid_json"]
JsonNonObject == [kind |-> "json_non_object"]
JsonBody(body) == [kind |-> "json", body |-> body]

\* _analyze_batch rejecting an object without items as invalid
AnalyzeBatch_RequiresItems(items, response) ==
    IF response.kind \in {"api_error", "json_non_object"}
    THEN [raised |-> TRUE, error_code |-> "API_ERROR", message |-> LLM_ERROR_MESSAGE]
    ELSE IF response.kind = "invalid_json" \/ "items" \notin DOMAIN response.body
    THEN [raised |-> TRUE, error_code |-> "INVALID_JSON", message |-> LLM_ERROR_MESSAGE]
    ELSE [raised |-> FALSE, result |-> response.body]

\* _analyze_batch: the result dict, or the LLMAPIError raised; on JSON that
\* is not an object the test or the assignment of lines 170-171 raises
\* TypeError, which the except Exception clause reports as API_ERROR
AnalyzeBatch(items, response) ==
    IF response.kind \in {"api_error", "json_non_object"}
    THEN [raised |-> TRUE, error_code |-> "API_ERROR", message |-> LLM_ERROR_MESSAGE]
    ELSE IF response.kind = "invalid_json"
    THEN [raised |-> TRUE, error_code |-> "INVALID_JSON", message |-> LLM_ERROR_MESSAGE]
    ELSE [raised |-> FALSE,
          result |-> IF "items" \in DOMAIN response.body
                     THEN response.body
                     ELSE response.body @@ [items |-> <<>>]]

\* Batch with the slice ending one row later: items[i:i + batch_size + 1]
Batch_Inclusive(items, b) ==
    SubSeq(items, (b - 1) * BATCH_SIZE + 1,
           IF b * BATCH_SIZE + 1 < Len(items) THEN b * BATCH_SIZE + 1 ELSE Len(items))

\* items[i:i + batch_size] for the 1-based batch number b
Batch(items, b) ==
    SubSeq(items, (b - 1) * BATCH_SIZE + 1,
           IF b * BATCH_SIZE < Len(items) THEN b * BATCH_SIZE ELSE Len(items))

\* len(range(0, len(items), batch_size))
NumBatches(items) == (Len(items) + BATCH_SIZE - 1) \div BATCH_SIZE

\* number of requests analyze_and_code_items may issue for items
NumRequests(items) == IF Len(items) <= BATCH_SIZE THEN 1 ELSE NumBatches(items)

RECURSIVE CountApps(_, _)
CountApps(all_items, app) ==
    IF all_items = <<>> THEN 0
    ELSE (IF Or(Get(Head(all_items), "application", APP_OTHER), APP_OTHER) = app THEN 1 ELSE 0)
         + CountApps(Tail(all_items), app)

\* _generate_summary
GenerateSummary(all_items, codebook_type) ==
    LET divisions == {Get(all_items[k], "csi_division", <<>>) : k \in
                        {m \in 1..Len(all_items) :
                            Truthy(Get(all_items[m], "csi_division", None))}}
        apps == {Or(Get(all_items[k], "application", APP_OTHER), APP_OTHER) :
                    k \in 1..Len(all_items)}
    IN [analysis_summary |->
            <<"Analyzed ">> \o Digits(Len(all_items)) \o <<" ">> \o codebook_type
            \o <<" items across ">> \o Digits(Cardinality(divisions))
            \o <<" CSI divisions.">>,
        analysis_details |->
            [total_items |-> Len(all_items),
             divisions_found |-> divisions,
             applications_breakdown |-> [a \in apps |-> CountApps(all_items, a)],
             recommendations |-> <<>>]]

\* the batch loop with all_items replaced by each batch's items, not extended
RECURSIVE BatchLoop_KeepsLast(_, _, _, _, _)
BatchLoop_KeepsLast(items, responses, b, all_items, codebook_type) ==
    IF b > NumBatches(items)
    THEN LET summary_result == GenerateSummary(all_items, codebook_type)
         IN [raised |-> FALSE, requests |-> b - 1,
             result |-> [items |-> all_items,
                         analysis_summary |-> summary_result.analysis_summary,
                         analysis_details |-> summary_result.analysis_details]]
    ELSE LET r == AnalyzeBatch(Batch(items, b), responses[b])
         IN IF r.raised
            THEN [raised |-> TRUE, requests |-> b, error_code |-> r.error_code,
                  message |-> r.message]
            ELSE BatchLoop_KeepsLast(items, responses, b + 1,
                                     Get(r.result, "items", <<>>), codebook_type)

\* the batch loop going on to the next batch when a request fails
RECURSIVE BatchLoop_SkipsFailed(_, _, _, _, _)
BatchLoop_SkipsFailed(items, responses, b, all_items, codebook_type) ==
    IF b > NumBatches(items)
    THEN LET summary_result == GenerateSummary(all_items, codebook_type)
         IN [raised |-> FALSE, requests |-> b - 1,
             result |-> [items |-> all_items,
                         analysis_summary |-> summary_result.analysis_summary,
                         analysis_details |-> summary_result.analysis_details]]
    ELSE LET r == AnalyzeBatch(Batch(items, b), responses[b])
         IN BatchLoop_SkipsFailed(items, responses, b + 1,
                IF r.raised THEN all_items ELSE all_items \o Get(r.result, "items", <<>>),
                codebook_type)

\* the batch loop: requests b, b+1, ... until one raises or all are answered
RECURSIVE BatchLoop(_, _, _, _, _)
BatchLoop(items, responses, b, all_items, codebook_type) ==
    IF b > NumBatches(items)
    THEN LET summary_result == GenerateSummary(all_items, codebook_type)
         IN [raised |-> FALSE, requests |-> b - 1,
             result |-> [items |-> all_items,
                         analysis_summary |-> summary_result.analysis_summary,
                         analysis_details |-> summary_result.analysis_details]]
    ELSE LET r == AnalyzeBatch(Batch(items, b), responses[b])
         IN IF r.raised
            THEN [raised |-> TRUE, requests |-> b, error_code |-> r.error_code,
                  message |-> r.message]
            ELSE BatchLoop(items, responses, b + 1,
                           all_items \o Get(r.result, "items", <<>>), codebook_type)

\* the rows each request of analyze_and_code_items carried, given how many
\* requests the call issued
SentBatches(items, requests) ==
    IF Len(items) <= BATCH_SIZE THEN <<items>>
    ELSE [b \in 1..requests |-> Batch(items, b)]

\* analyze_and_code_items; responses[k] is what the k-th request is answered
AnalyzeAndCodeItems(items, codebook_type, responses) ==
    IF Len(items) <= BATCH_SIZE
    THEN AnalyzeBatch(items, responses[1]) @@ [requests |-> 1]
    ELSE BatchLoop(items, responses, 1, <<>>, codebook_type)

(* ------------------------------ the store ------------------------------ *)

\* the tables of the backing store (a row's id is its position); per job, the
\* locals of the process_upload task scheduled for it; the log of the requests
\* the routes have handled; the calls of set_active_version made so far
VARIABLES jobs, codebooks, codebook_versions, codebook_items, run, requests, activation

vars == <<jobs, codebooks, codebook_versions, codebook_items, run, requests, activation>>
store == <<jobs, codebooks, codebook_versions, codebook_items>>

\* an optional argument or a nullable column: <<>> is null, <<v>> holds v
Null == <<>>
Some(v) == <<v>>

\* JobRepository.create_job: the row inserted (columns not given take the
\* table's defaults)
NewJob(client_id, status) ==
    [client_id |-> client_id, job_type |-> "initial_analysis", status |-> status,
     progress |-> 0, result |-> Null, error |-> Null, codebook_id |-> Null,
     completed_at |-> Null]

\* UpdateJob writing every column, given or not: progress falls back to 0
UpdateJob_ResetsProgress(row, status, progress, result_payload, error) ==
    [row EXCEPT !.status = IF status # Null THEN status[1] ELSE @,
                !.progress = IF progress # Null THEN progress[1] ELSE 0,
                !.result = IF result_payload # Null THEN result_payload ELSE @,
                !.error = IF error # Null THEN error ELSE @]

\* JobRepository.update_job: only the arguments given are written
UpdateJob(row, status, progress, result_payload, error) ==
    [row EXCEPT !.status = IF status # Null THEN status[1] ELSE @,
                !.progress = IF progress # Null THEN progress[1] ELSE @,
                !.result = IF result_payload # Null THEN result_payload ELSE @,
                !.error = IF error # Null THEN error ELSE @]

\* CodebookRepository.create_codebook: the row inserted
NewCodebook(client_id, name, type, description) ==
    [client_id |-> client_id, name |-> name, type |-> type, description |-> description]

\* CodebookVersionRepository.create_version: the row inserted
\* (is_active is CodebookVersionBase's default)
NewVersion(codebook_id, version_number, label) ==
    [codebook_id |-> codebook_id, version_number |-> version_number, label |-> label,
     is_active |-> TRUE, analysis_summary |-> None, analysis_details |-> None,
     prompt_version |-> None]

\* CodebookItem.model_validate on a returned row: code and original_label
\* have min_length 1
ItemRowValid(row) == Len(row.code) >= 1 /\ Len(row.original_label) >= 1

(* ----------------------------- csv_parser ------------------------------ *)

\* the heuristic column names (membership is all the code asks of them)
LABEL_COLUMNS ==
    {<<"i", "t", "e", "m">>,
     <<"n", "a", "m", "e">>,
     <<"l", "a", "b", "e", "l">>,
     <<"d", "e", "s", "c", "r", "i", "p", "t", "i", "o", "n">>,
     <<"m", "a", "t", "e", "r", "i", "a", "l">>,
     <<"t", "i", "t", "l", "e">>,
     <<"i", "t", "e", "m", "_", "n", "a", "m", "e">>,
     <<"i", "t", "e", "m", "_", "d", "e", "s", "c", "r", "i", "p", "t", "i", "o", "n">>,
     <<"m", "a", "t", "e", "r", "i", "a", "l", "_", "n", "a", "m", "e">>,
     <<"p", "r", "o", "d", "u", "c", "t">>,
     <<"i", "t", "e", "m", " ", "n", "a", "m", "e">>,
     <<"i", "t", "e", "m", " ", "d", "e", "s", "c", "r", "i", "p", "t", "i", "o", "n">>,
     <<"m", "a", "t", "e", "r", "i", "a", "l", " ", "n", "a", "m", "e">>}

DESCRIPTION_COLUMNS ==
    {<<"d", "e", "s", "c", "r", "i", "p", "t", "i", "o", "n">>,
     <<"d", "e", "s", "c">>,
     <<"d", "e", "t", "a", "i", "l", "s">>,
     <<"n", "o", "t", "e", "s">>,
     <<"s", "p", "e", "c", "i", "f", "i", "c", "a", "t", "i", "o", "n">>,
     <<"i", "t", "e", "m", "_", "d", "e", "s", "c", "r", "i", "p", "t", "i", "o", "n">>,
     <<"i", "t", "e", "m", " ", "d", "e", "s", "c", "r", "i", "p", "t", "i", "o", "n">>,
     <<"s", "p", "e", "c">>}

DIAMETER_COLUMNS ==
    {<<"d", "i", "a", "m", "e", "t", "e", "r">>,
     <<"s", "i", "z", "e">>,
     <<"d", "i", "a">>,
     <<"n", "o", "m", "i", "n", "a", "l", "_", "s", "i", "z", "e">>,
     <<"n", "o", "m", "i", "n", "a", "l", " ", "s", "i", "z", "e">>,
     <<"p", "i", "p", "e", "_", "s", "i", "z", "e">>,
     <<"p", "i", "p", "e", " ", "s", "i", "z", "e">>}

APPLICATION_COLUMNS ==
    {<<"a", "p", "p", "l", "i", "c", "a", "t", "i", "o", "n">>,
     <<"a", "p", "p">>,
     <<"u", "s", "e">>,
     <<"c", "a", "t", "e", "g", "o", "r", "y">>,
     <<"s", "y", "s", "t", "e", "m">>,
     <<"t", "y", "p", "e">>,
     <<"a", "p", "p", "l", "i", "c", "a", "t", "i", "o", "n", "_", "t", "y", "p", "e">>,
     <<"a", "p", "p", "l", "i", "c", "a", "t", "i", "o", "n", " ", "t", "y", "p", "e">>}

\* the dict of accepted application spellings
APPLICATION_MAP ==
    (<<"s", "a", "n", "i", "t", "a", "r", "y">> :> APP_SANITARY_SEWER)
    @@ (<<"s", "a", "n", "i", "t", "a", "r", "y", "_", "s", "e", "w", "e", "r">> :> APP_SANITARY_SEWER)
    @@ (<<"s", "a", "n", "i", "t", "a", "r", "y", " ", "s", "e", "w", "e", "r">> :> APP_SANITARY_SEWER)
    @@ (<<"s", "t", "o", "r", "m">> :> APP_STORM_SEWER)
    @@ (<<"s", "t", "o", "r", "m", "_", "s", "e", "w", "e", "r">> :> APP_STORM_SEWER)
    @@ (<<"s", "t", "o", "r", "m", " ", "s", "e", "w", "e", "r">> :> APP_STORM_SEWER)
    @@ (<<"w", "a", "t", "e", "r">> :> APP_WATER)
    @@ (<<"p", "o", "t", "a", "b", "l", "e">> :> APP_WATER)
    @@ (<<"o", "t", "h", "e", "r">> :> APP_OTHER)

MAX_FILE_SIZE_MB == 10
MAX_ROWS_PER_UPLOAD == 10000

\* a cell of the DataFrame: NaN, a str, a Python int, or a Python float held
\* in tenths (FloatCell(120) is 12.0, FloatCell(125) is 12.5)
NaN == [kind |-> "nan", num |-> 0, text |-> <<>>]
StrCell(text) == [kind |-> "str", num |-> 0, text |-> text]
IntCell(n) == [kind |-> "int", num |-> n, text |-> <<>>]
FloatCell(tenths) == [kind |-> "float", num |-> tenths, text |-> <<>>]

\* pd.notna(v)
NotNa(cell) == cell.kind # "nan"

\* str(v)
Str(cell) ==
    CASE cell.kind = "str" -> cell.text
      [] cell.kind = "int" -> Digits(cell.num)
      [] cell.kind = "float" -> Digits(cell.num \div 10) \o <<".">> \o Digits(cell.num % 10)
      [] cell.kind = "nan" -> <<"n", "a", "n">>

\* if isinstance(val, float) and val == int(val): val = int(val)
IntegralFloatToInt(val) ==
    IF val.kind = "float" /\ val.num % 10 = 0 THEN IntCell(val.num \div 10) ELSE val

\* d[key] = value on a dict held as its entries in insertion order, flattened:
\* <<key1, value1, key2, value2, ...>>
DictSet(d, key, value) ==
    IF \E k \in 1..(Len(d) \div 2) : d[2 * k - 1] = key
    THEN [i \in 1..Len(d) |-> IF i % 2 = 0 /\ d[i - 1] = key THEN value ELSE d[i]]
    ELSE d \o <<key, value>>

\* row[col]
Cell(df, row, col) == row[CHOOSE k \in 1..Len(df.columns) : df.columns[k] = col]

\* the scan with independent ifs: a column fills every unset role that lists its name
RECURSIVE DetectLoop_IfChain(_, _, _)
DetectLoop_IfChain(columns, k, mapping) ==
    IF k > Len(columns) THEN mapping
    ELSE LET col == columns[k]
             col_lower == Strip(Lower(col))
             Fill(role, names) ==
                IF mapping[role] = None /\ col_lower \in names THEN col ELSE mapping[role]
         IN DetectLoop_IfChain(columns, k + 1,
                [label |-> Fill("label", LABEL_COLUMNS),
                 description |-> Fill("description", DESCRIPTION_COLUMNS),
                 diameter |-> Fill("diameter", DIAMETER_COLUMNS),
                 application |-> Fill("application", APPLICATION_COLUMNS)])

\* the scan of detect_columns: each column fills the first role of the elif
\* chain that is still unset and lists the column's name
RECURSIVE DetectLoop(_, _, _)
DetectLoop(columns, k, mapping) ==
    IF k > Len(columns) THEN mapping
    ELSE LET col == columns[k]
             col_lower == Strip(Lower(col))
         IN DetectLoop(columns, k + 1,
                IF mapping.label = None /\ col_lower \in LABEL_COLUMNS
                THEN [mapping EXCEPT !.label = col]
                ELSE IF mapping.description = None /\ col_lower \in DESCRIPTION_COLUMNS
                THEN [mapping EXCEPT !.description = col]
                ELSE IF mapping.diameter = None /\ col_lower \in DIAMETER_COLUMNS
                THEN [mapping EXCEPT !.diameter = col]
                ELSE IF mapping.application = None /\ col_lower \in APPLICATION_COLUMNS
                THEN [mapping EXCEPT !.application = col]
                ELSE mapping)

\* detect_columns without its last step, which clears a description equal to label
detect_columns_KeepsDescription(df) ==
    LET columns == df.columns
        scanned == DetectLoop(columns, 1, [label |-> None, description |-> None,
                                           diameter |-> None, application |-> None])
    IN IF scanned.label = None /\ Len(columns) > 0
       THEN [scanned EXCEPT !.label = columns[1]]
       ELSE scanned

detect_columns(df) ==
    LET columns == df.columns
        scanned == DetectLoop(columns, 1, [label |-> None, description |-> None,
                                           diameter |-> None, application |-> None])
        with_label == IF scanned.label = None /\ Len(columns) > 0
                      THEN [scanned EXCEPT !.label = columns[1]]
                      ELSE scanned
    IN IF with_label.label = with_label.description
       THEN [with_label EXCEPT !.description = None]
       ELSE with_label

\* the loop over df.columns that fills metadata
RECURSIVE MetadataLoop(_, _, _, _, _, _)
MetadataLoop(df, row, k, label_col, desc_col, metadata) ==
    IF k > Len(df.columns) THEN metadata
    ELSE LET col == df.columns[k]
         IN MetadataLoop(df, row, k + 1, label_col, desc_col,
                IF col \in {label_col, desc_col} \/ ~NotNa(row[k])
                THEN metadata
                ELSE DictSet(metadata, col, IntegralFloatToInt(row[k])))

DIAMETER_KEY == <<"d", "i", "a", "m", "e", "t", "e", "r">>

\* the body of the loop of normalize_items for one row; a row whose
\* original_label is empty is skipped by the caller
NormalizeRow(df, row, column_mapping) ==
    LET label_col == column_mapping.label
        desc_col == column_mapping.description
        diameter_col == column_mapping.diameter
        app_col == column_mapping.application
        original_label ==
            IF Truthy(label_col) /\ NotNa(Cell(df, row, label_col))
            THEN Strip(Str(Cell(df, row, label_col))) ELSE <<>>
        description ==
            IF Truthy(desc_col) /\ NotNa(Cell(df, row, desc_col))
            THEN Strip(Str(Cell(df, row, desc_col))) ELSE None
        metadata == MetadataLoop(df, row, 1, label_col, desc_col, <<>>)
        application ==
            IF Truthy(app_col) /\ NotNa(Cell(df, row, app_col))
            THEN Get(APPLICATION_MAP, Lower(Strip(Str(Cell(df, row, app_col)))), None)
            ELSE None
        with_diameter ==
            IF Truthy(diameter_col) /\ NotNa(Cell(df, row, diameter_col))
            THEN DictSet(metadata, DIAMETER_KEY, Cell(df, row, diameter_col))
            ELSE metadata
    IN [original_label |-> original_label,
        description |-> description,
        metadata |-> IF with_diameter = <<>> THEN None ELSE with_diameter,
        application |-> application]

\* normalize_items appending a record for every row, blank label or not
normalize_items_KeepsBlank(df, column_mapping) ==
    [k \in 1..Len(df.rows) |-> NormalizeRow(df, df.rows[k], column_mapping)]

normalize_items(df, column_mapping) ==
    SelectSeq([k \in 1..Len(df.rows) |-> NormalizeRow(df, df.rows[k], column_mapping)],
              LAMBDA item : item.original_label # <<>>)

\* two columns carry the same cleaned name: row.get(col) is then a Series and
\* its truth test in normalize_items raises ValueError
DuplicateColumns(df) ==
    \E a, b \in 1..Len(df.columns) : a # b /\ df.columns[a] = df.columns[b]

\* normalize_items raises: the label column is one of the repeated ones (the
\* test of the first row raises), or some row gets past the label test and
\* reaches a repeated column in the loop over df.columns
NormalizeRaises(df, column_mapping) ==
    /\ DuplicateColumns(df)
    /\ \/ Cardinality({c \in 1..Len(df.columns) : df.columns[c] = column_mapping.label}) > 1
       \/ \E r \in 1..Len(df.rows) :
            /\ NotNa(Cell(df, df.rows[r], column_mapping.label))
            /\ Strip(Str(Cell(df, df.rows[r], column_mapping.label))) # <<>>

\* df.columns = [str(c).strip().lower() for c in df.columns]
CleanColumns(df) == [df EXCEPT !.columns = [k \in 1..Len(@) |-> Lower(Strip(@[k]))]]

\* parse_upload_file on a file of file.size bytes that pandas reads as file.df:
\* the APIError code raised, or the items returned
parse_upload_file(file) ==
    IF file.size > MAX_FILE_SIZE_MB * 1024 * 1024
    THEN [raised |-> TRUE, code |-> "FILE_TOO_LARGE"]
    ELSE IF Len(file.df.rows) > MAX_ROWS_PER_UPLOAD
    THEN [raised |-> TRUE, code |-> "TOO_MANY_ROWS"]
    ELSE IF Len(file.df.rows) = 0
    THEN [raised |-> TRUE, code |-> "EMPTY_FILE"]
    ELSE LET df == CleanColumns(file.df)
             column_mapping == detect_columns(df)
         IN IF NormalizeRaises(df, column_mapping)
            THEN [raised |-> TRUE, code |-> "INTERNAL_ERROR", df |-> df,
                  column_mapping |-> column_mapping]
            ELSE [raised |-> FALSE, df |-> df, column_mapping |-> column_mapping,
                  items |-> normalize_items(df, column_mapping)]

(* ----------------------------- AuthContext ----------------------------- *)

AuthContext(client_id, role) == [client_id |-> client_id, role |-> role]

is_admin(auth) == auth.role = "admin"

can_access_client_OwnOnly(auth, client_id) == auth.client_id = client_id

can_access_client(auth, client_id) == is_admin(auth) \/ auth.client_id = client_id

\* the code of the error require_admin raises, or Null when it returns
require_admin(auth) ==
    IF ~is_admin(auth) THEN Some("INSUFFICIENT_PERMISSIONS") ELSE Null

\* the code of the error require_client_access raises, or Null when it returns
require_client_access(auth, client_id) ==
    IF ~can_access_client(auth, client_id) THEN Some("CLIENT_ACCESS_DENIED") ELSE Null

(* ------------------------------ the routes ----------------------------- *)

\* the log of the requests handled so far
Request(route, auth, client_id, outcome, job, df, column_mapping) ==
    [route |-> route, auth |-> auth, client_id |-> client_id, outcome |-> outcome,
     job |-> job, df |-> df, column_mapping |-> column_mapping]

RowPipe == [original_label |-> <<"8", "i", "n", " ", "P">>, description |-> None,
            metadata |-> None, application |-> None]

CODEBOOK_TYPE == <<"material">>

NewRun(client_id, items) ==
    [pc |-> "update_job_running", client_id |-> client_id, items |-> items,
     codebook |-> Null, version |-> Null, responses |-> Null, sent |-> Null,
     llm_result |-> Null, error_code |-> Null,
     db_items |-> Null, exc |-> Null, steps |-> <<>>]

Init ==
    /\ jobs = <<>>
    /\ codebooks = <<>>
    /\ codebook_versions = <<>>
    /\ codebook_items = <<>>
    /\ run = <<>>
    /\ requests = <<>>
    /\ activation = <<>>

\* upload_codebook with the job created before the file is parsed
upload_codebook_JobFirst(auth, client_id, file) ==
    LET parsed == parse_upload_file(file)
    IN /\ jobs' = Append(jobs, NewJob(client_id, "pending"))
       /\ run' = IF parsed.raised THEN run ELSE Append(run, NewRun(client_id, parsed.items))
       /\ requests' = Append(requests,
              Request("upload_codebook", auth, Some(client_id),
                      IF parsed.raised THEN parsed.code ELSE "accepted",
                      Some(Len(jobs) + 1), Null, Null))
       /\ UNCHANGED <<codebooks, codebook_versions, codebook_items, activation>>

\* upload_codebook: check access, parse the file, create the job (pending)
\* and schedule process_upload; an error raised on the way ends the request
upload_codebook(auth, client_id, file) ==
    LET denied == require_client_access(auth, client_id)
        parsed == parse_upload_file(file)
        Rejected(code, df, column_mapping) ==
            /\ requests' = Append(requests,
                   Request("upload_codebook", auth, Some(client_id), code, Null,
                           df, column_mapping))
            /\ UNCHANGED <<store, run, activation>>
    IN IF denied # Null THEN Rejected(denied[1], Null, Null)
       ELSE IF parsed.raised
       THEN IF "df" \in DOMAIN parsed
            THEN Rejected(parsed.code, Some(parsed.df), Some(parsed.column_mapping))
            ELSE Rejected(parsed.code, Null, Null)
       ELSE \/ /\ jobs' = Append(jobs, NewJob(client_id, "pending"))
               /\ run' = Append(run, NewRun(client_id, parsed.items))
               /\ requests' = Append(requests,
                      Request("upload_codebook", auth, Some(client_id), "accepted",
                              Some(Len(jobs) + 1), Some(parsed.df),
                              Some(parsed.column_mapping)))
               /\ UNCHANGED <<codebooks, codebook_versions, codebook_items, activation>>
            \/ Rejected("INTERNAL_ERROR", Some(parsed.df), Some(parsed.column_mapping))

\* list_codebooks: check access, then read
list_codebooks(auth, client_id) ==
    LET denied == require_client_access(auth, client_id)
    IN /\ requests' = Append(requests,
              Request("list_codebooks", auth, Some(client_id),
                      IF denied # Null THEN denied[1] ELSE "ok", Null, Null, Null))
       /\ UNCHANGED <<store, run, activation>>

\* list_clients: the AdminDep dependency calls require_admin, then read
list_clients(auth) ==
    LET denied == require_admin(auth)
    IN /\ requests' = Append(requests,
              Request("list_clients", auth, Null,
                      IF denied # Null THEN denied[1] ELSE "ok", Null, Null, Null))
       /\ UNCHANGED <<store, run, activation>>

(* ----------------------- set_active_version ---------------------------- *)

\* first statement of set_active_version: deactivate every version of the
\* codebook; the call is then in flight until its second statement
DeactivateOthers(codebook_id, version_id) ==
    \/ /\ codebook_versions' =
            [v \in 1..Len(codebook_versions) |->
                IF codebook_versions[v].codebook_id = codebook_id
                THEN [codebook_versions[v] EXCEPT !.is_active = FALSE]
                ELSE codebook_versions[v]]
       /\ activation' = Append(activation, [codebook_id |-> codebook_id,
                                            version_id |-> version_id, pc |-> "activate"])
       /\ UNCHANGED <<jobs, codebooks, codebook_items, run, requests>>
    \/ /\ activation' = Append(activation, [codebook_id |-> codebook_id,
                                            version_id |-> version_id, pc |-> "raised"])
       /\ UNCHANGED <<store, run, requests>>

\* second statement of set_active_version: activate the target version
ActivateTarget(a) ==
    /\ activation[a].pc = "activate"
    /\ \/ /\ codebook_versions' =
               [codebook_versions EXCEPT ![activation[a].version_id].is_active = TRUE]
          /\ activation' = [activation EXCEPT ![a].pc = "returned"]
          /\ UNCHANGED <<jobs, codebooks, codebook_items, run, requests>>
       \/ /\ activation' = [activation EXCEPT ![a].pc = "raised"]
          /\ UNCHANGED <<store, run, requests>>

(* --------------------------- pipeline inputs --------------------------- *)

\* the callers of upload_codebook: the client's own key and another client's
PipelineAuths == {AuthContext(1, "client_user"), AuthContext(2, "client_user")}

LabelCell == StrCell(<<"8", "i", "n", " ", "P">>)

\* a file of two rows with one column, the label
FilePipes ==
    [size |-> 2048,
     df |-> [columns |-> << <<"I", "t", "e", "m">> >>, rows |-> << <<LabelCell>>, <<LabelCell>> >>]]

FileTooLarge == [FilePipes EXCEPT !.size = MAX_FILE_SIZE_MB * 1024 * 1024 + 1]

FileTooManyRows ==
    [FilePipes EXCEPT !.df.rows = [k \in 1..(MAX_ROWS_PER_UPLOAD + 1) |-> <<LabelCell>>]]

FileEmpty == [FilePipes EXCEPT !.df.rows = <<>>]

\* the files uploaded in the pipeline runs
PipelineFiles == {FilePipes, FileTooLarge, FileTooManyRows, FileEmpty}

ItemDup == [original_label |-> <<"8", "i", "n", " ", "P">>, code |-> <<"2", "-", "P">>]
ItemNullLabel == [original_label |-> None, code |-> <<"2", "-", "P">>]
ItemWater == [original_label |-> <<"8", "i", "n", " ", "P">>, code |-> <<"W">>,
              application |-> APP_WATER, csi_division |-> <<"3", "3">>]
ItemEmptyApp == [original_label |-> <<"v">>, code |-> <<"V">>, application |-> <<>>]

\* what the LLM answers in the pipeline runs; a body's own summary and
\* details need not agree with its items
PipelineResponses ==
    {ApiError,
     InvalidJson,
     JsonNonObject,
     JsonBody([analysis_summary |-> <<"s">>]),
     JsonBody([items |-> <<ItemDup, ItemDup>>, analysis_summary |-> <<"s">>,
               analysis_details |-> [total_items |-> 2]]),
     JsonBody([items |-> <<ItemWater, ItemEmptyApp, ItemDup>>, analysis_summary |-> <<"t">>,
               analysis_details |-> [total_items |-> 7]]),
     JsonBody([items |-> <<ItemNullLabel>>])}

(* --------------------------- process_upload ---------------------------- *)

JobIds == 1..Len(jobs)

At(j, op) == run[j].pc = op

Step(op, ok) == [op |-> op, ok |-> ok]

\* the call op returned: go on to the statement at next
Advance(r, op, next) == [r EXCEPT !.pc = next, !.steps = Append(@, Step(op, TRUE))]

\* Raise with the exception swallowed: the run returns without the failure write
Raise_Swallowed(r, op, message) ==
    [r EXCEPT !.pc = "returned", !.exc = Some(message),
              !.steps = Append(@, [op |-> op, ok |-> FALSE])]

\* the call op raised: control passes to the except clause with e
Raise(r, op, message) ==
    [r EXCEPT !.pc = "update_job_failed", !.exc = Some(message),
              !.steps = Append(@, Step(op, FALSE))]

\* a call of the storage client raises and leaves the store as it was
StoreRaises(j, op) ==
    /\ \E message \in StoreErrors : run' = [run EXCEPT ![j] = Raise(@, op, message)]
    /\ UNCHANGED <<store, requests, activation>>

\* update_job(job_id, progress=p) between two steps
UpdateProgress(j, op, p, next) ==
    /\ At(j, op)
    /\ \/ /\ jobs' = [jobs EXCEPT ![j] = UpdateJob(@, Null, Some(p), Null, Null)]
          /\ run' = [run EXCEPT ![j] = Advance(@, op, next)]
          /\ UNCHANGED <<codebooks, codebook_versions, codebook_items, requests, activation>>
       \/ StoreRaises(j, op)

\* line 48: update_job(job_id, status="running", progress=5)
SetRunning(j) ==
    /\ At(j, "update_job_running")
    /\ \/ /\ jobs' = [jobs EXCEPT ![j] = UpdateJob(@, Some("running"), Some(5), Null, Null)]
          /\ run' = [run EXCEPT ![j] = Advance(@, "update_job_running", "create_codebook")]
          /\ UNCHANGED <<codebooks, codebook_versions, codebook_items, requests, activation>>
       \/ StoreRaises(j, "update_job_running")

\* lines 52-59: create_codebook
CreateCodebook(j) ==
    /\ At(j, "create_codebook")
    /\ \/ /\ codebooks' = Append(codebooks,
                                 NewCodebook(run[j].client_id, <<"n">>, CODEBOOK_TYPE, None))
          /\ run' = [run EXCEPT ![j] = [Advance(@, "create_codebook", "update_job_15")
                                            EXCEPT !.codebook = Some(Len(codebooks) + 1)]]
          /\ UNCHANGED <<jobs, codebook_versions, codebook_items, requests, activation>>
       \/ StoreRaises(j, "create_codebook")

\* line 60
Progress15(j) == UpdateProgress(j, "update_job_15", 15, "set_codebook_id")

\* SetCodebookId going on without writing the job row
SetCodebookId_Skipped(j) ==
    /\ At(j, "set_codebook_id")
    /\ run' = [run EXCEPT ![j] = Advance(@, "set_codebook_id", "create_version")]
    /\ UNCHANGED <<store, requests, activation>>

\* lines 64-66: attach the codebook id to the job row
SetCodebookId(j) ==
    /\ At(j, "set_codebook_id")
    /\ \/ /\ jobs' = [jobs EXCEPT ![j].codebook_id = run[j].codebook]
          /\ run' = [run EXCEPT ![j] = Advance(@, "set_codebook_id", "create_version")]
          /\ UNCHANGED <<codebooks, codebook_versions, codebook_items, requests, activation>>
       \/ StoreRaises(j, "set_codebook_id")

\* lines 69-76: create version 1
CreateVersion(j) ==
    /\ At(j, "create_version")
    /\ \/ /\ codebook_versions' =
                Append(codebook_versions, NewVersion(run[j].codebook[1], 1, <<"Initial import">>))
          /\ run' = [run EXCEPT ![j] = [Advance(@, "create_version", "update_job_25")
                                            EXCEPT !.version = Some(Len(codebook_versions) + 1)]]
          /\ UNCHANGED <<jobs, codebooks, codebook_items, requests, activation>>
       \/ StoreRaises(j, "create_version")

\* line 77
Progress25(j) == UpdateProgress(j, "update_job_25", 25, "update_job_30")

\* line 81
Progress30(j) == UpdateProgress(j, "update_job_30", 30, "analyze")

\* lines 82-85: analyze_and_code_items (it touches no table); responses are
\* the answers the requests of this call got
Analyze(j) ==
    /\ At(j, "analyze")
    /\ \E responses \in [1..NumRequests(run[j].items) -> PipelineResponses] :
        LET r == AnalyzeAndCodeItems(run[j].items, CODEBOOK_TYPE, responses)
        IN run' = [run EXCEPT ![j] =
                    IF r.raised
                    THEN [Raise(@, "analyze", r.message)
                            EXCEPT !.error_code = Some(r.error_code),
                                   !.responses = Some(responses),
                                   !.sent = Some(SentBatches(run[j].items, r.requests))]
                    ELSE [Advance(@, "analyze", "update_job_70")
                            EXCEPT !.responses = Some(responses),
                                   !.sent = Some(SentBatches(run[j].items, r.requests)),
                                   !.llm_result = Some(r.result)]]
    /\ UNCHANGED <<store, requests, activation>>

\* line 86
Progress70(j) == UpdateProgress(j, "update_job_70", 70, "build_item_records")

\* lines 90-96: _build_item_records
Build(j) ==
    /\ At(j, "build_item_records")
    /\ LET llm_items == Get(run[j].llm_result[1], "items", <<>>)
       IN run' = [run EXCEPT ![j] =
                    IF BuildRaises(llm_items)
                    THEN Raise(@, "build_item_records", BUILD_ERROR_MESSAGE)
                    ELSE [Advance(@, "build_item_records", "bulk_insert_items")
                            EXCEPT !.db_items = Some(BuildItemRecords(
                                llm_items, run[j].items, run[j].version[1], run[j].client_id))]]
    /\ UNCHANGED <<store, requests, activation>>

\* lines 98-99: if db_items: bulk_insert_items(db_items)
BulkInsert(j) ==
    /\ At(j, "bulk_insert_items")
    /\ LET db_items == run[j].db_items[1]
       IN \/ /\ db_items = <<>>
             /\ run' = [run EXCEPT ![j].pc = "update_job_85"]
             /\ UNCHANGED <<store, requests, activation>>
          \/ /\ db_items # <<>>
             /\ codebook_items' = codebook_items \o db_items
             /\ run' = [run EXCEPT ![j] =
                         IF \A k \in 1..Len(db_items) : ItemRowValid(db_items[k])
                         THEN Advance(@, "bulk_insert_items", "update_job_85")
                         ELSE Raise(@, "bulk_insert_items", "validation error")]
             /\ UNCHANGED <<jobs, codebooks, codebook_versions, requests, activation>>
          \/ /\ db_items # <<>>
             /\ StoreRaises(j, "bulk_insert_items")

\* line 100
Progress85(j) == UpdateProgress(j, "update_job_85", 85, "update_version")

\* lines 104-108: attach the analysis to the version row
UpdateVersion(j) ==
    /\ At(j, "update_version")
    /\ \/ /\ codebook_versions' =
                [codebook_versions EXCEPT ![run[j].version[1]] =
                    [@ EXCEPT !.analysis_summary =
                                  Get(run[j].llm_result[1], "analysis_summary", None),
                              !.analysis_details =
                                  Get(run[j].llm_result[1], "analysis_details", None),
                              !.prompt_version = <<"analysis_v1.0">>]]
          /\ run' = [run EXCEPT ![j] = Advance(@, "update_version", "update_job_completed")]
          /\ UNCHANGED <<jobs, codebooks, codebook_items, requests, activation>>
       \/ StoreRaises(j, "update_version")

\* ResultPayload counting the uploaded rows instead of the records built
ResultPayload_CountsRows(r) ==
    [codebook_id |-> r.codebook[1], version_id |-> r.version[1],
     item_count |-> Len(r.items),
     analysis_summary |-> Get(r.llm_result[1], "analysis_summary", None)]

ResultPayload(r) ==
    [codebook_id |-> r.codebook[1], version_id |-> r.version[1],
     item_count |-> Len(r.db_items[1]),
     analysis_summary |-> Get(r.llm_result[1], "analysis_summary", None)]

\* lines 111-121: update_job(status="completed", progress=100, result_payload=...)
SetCompleted(j) ==
    /\ At(j, "update_job_completed")
    /\ \/ /\ jobs' = [jobs EXCEPT ![j] =
                        UpdateJob(@, Some("completed"), Some(100),
                                  Some(ResultPayload(run[j])), Null)]
          /\ run' = [run EXCEPT ![j] = Advance(@, "update_job_completed", "set_completed_at")]
          /\ UNCHANGED <<codebooks, codebook_versions, codebook_items, requests, activation>>
       \/ StoreRaises(j, "update_job_completed")

\* lines 124-126: stamp completed_at, then return
SetCompletedAt(j) ==
    /\ At(j, "set_completed_at")
    /\ \/ /\ jobs' = [jobs EXCEPT ![j].completed_at = Some("now")]
          /\ run' = [run EXCEPT ![j] = Advance(@, "set_completed_at", "returned")]
          /\ UNCHANGED <<codebooks, codebook_versions, codebook_items, requests, activation>>
       \/ StoreRaises(j, "set_completed_at")

\* HandleException marking the job failed without the message
HandleException_NoError(j) ==
    /\ run[j].pc = "update_job_failed"
    /\ \/ /\ jobs' = [jobs EXCEPT ![j] = UpdateJob(@, Some("failed"), Null, Null, Null)]
          /\ run' = [run EXCEPT ![j].pc = "returned",
                                ![j].steps = Append(@, [op |-> "update_job_failed", ok |-> TRUE])]
          /\ UNCHANGED <<codebooks, codebook_versions, codebook_items, requests, activation>>
       \/ /\ run' = [run EXCEPT ![j].pc = "propagated",
                                ![j].steps = Append(@, [op |-> "update_job_failed", ok |-> FALSE])]
          /\ UNCHANGED <<store, requests, activation>>

\* HandleException recording the message but leaving the status as it was
HandleException_KeepsStatus(j) ==
    /\ run[j].pc = "update_job_failed"
    /\ \/ /\ jobs' = [jobs EXCEPT ![j] = UpdateJob(@, Null, Null, Null, run[j].exc)]
          /\ run' = [run EXCEPT ![j].pc = "returned",
                                ![j].steps = Append(@, [op |-> "update_job_failed", ok |-> TRUE])]
          /\ UNCHANGED <<codebooks, codebook_versions, codebook_items, requests, activation>>
       \/ /\ run' = [run EXCEPT ![j].pc = "propagated",
                                ![j].steps = Append(@, [op |-> "update_job_failed", ok |-> FALSE])]
          /\ UNCHANGED <<store, requests, activation>>

\* lines 130-136: except Exception as e: update_job(status="failed", error=str(e));
\* when this write raises too, the exception leaves process_upload
HandleException(j) ==
    /\ At(j, "update_job_failed")
    /\ \/ /\ jobs' = [jobs EXCEPT ![j] = UpdateJob(@, Some("failed"), Null, Null, run[j].exc)]
          /\ run' = [run EXCEPT ![j] = Advance(@, "update_job_failed", "returned")]
          /\ UNCHANGED <<codebooks, codebook_versions, codebook_items, requests, activation>>
       \/ /\ run' = [run EXCEPT ![j].pc = "propagated",
                                ![j].steps = Append(@, Step("update_job_failed", FALSE))]
          /\ UNCHANGED <<store, requests, activation>>

Next ==
    \/ /\ Len(requests) < MaxUploads
       /\ \E auth \in PipelineAuths, file \in PipelineFiles : upload_codebook(auth, 1, file)
    \/ \E j \in JobIds : SetRunning(j)
    \/ \E j \in JobIds : CreateCodebook(j)
    \/ \E j \in JobIds : Progress15(j)
    \/ \E j \in JobIds : SetCodebookId(j)
    \/ \E j \in JobIds : CreateVersion(j)
    \/ \E j \in JobIds : Progress25(j)
    \/ \E j \in JobIds : Progress30(j)
    \/ \E j \in JobIds : Analyze(j)
    \/ \E j \in JobIds : Progress70(j)
    \/ \E j \in JobIds : Build(j)
    \/ \E j \in JobIds : BulkInsert(j)
    \/ \E j \in JobIds : Progress85(j)
    \/ \E j \in JobIds : UpdateVersion(j)
    \/ \E j \in JobIds : SetCompleted(j)
    \/ \E j \in JobIds : SetCompletedAt(j)
    \/ \E j \in JobIds : HandleException(j)

Spec == Init /\ [][Next]_vars

\* the statements of the process_upload task scheduled for job j
process_upload(j) ==
    /\ j \in JobIds
    /\ \/ SetRunning(j) \/ CreateCodebook(j) \/ Progress15(j) \/ SetCodebookId(j)
       \/ CreateVersion(j) \/ Progress25(j) \/ Progress30(j) \/ Analyze(j)
       \/ Progress70(j) \/ Build(j) \/ BulkInsert(j) \/ Progress85(j)
       \/ UpdateVersion(j) \/ SetCompleted(j) \/ SetCompletedAt(j)
       \/ HandleException(j)

\* the event loop runs every scheduled background task to its end: a task
\* that can take a step eventually takes one (the process does not crash)
SpecFair == Spec /\ \A j \in 1..MaxUploads : WF_vars(process_upload(j))

(* ------------- version creation and set_active_version ---------------- *)

\* uploads whose runs go as far as creating version 1, interleaved with calls
\* of set_active_version on the codebooks and versions in the store
NextActive ==
    \/ /\ Len(requests) < MaxUploads
       /\ \E auth \in PipelineAuths, file \in PipelineFiles : upload_codebook(auth, 1, file)
    \/ \E j \in JobIds : SetRunning(j)
    \/ \E j \in JobIds : CreateCodebook(j)
    \/ \E j \in JobIds : Progress15(j)
    \/ \E j \in JobIds : SetCodebookId(j)
    \/ \E j \in JobIds : CreateVersion(j)
    \/ \E j \in JobIds : HandleException(j)
    \/ /\ Len(activation) < MaxActivations
       /\ \E codebook_id \in 1..Len(codebooks), version_id \in 1..Len(codebook_versions) :
            DeactivateOthers(codebook_id, version_id)
    \/ \E a \in 1..Len(activation) : ActivateTarget(a)

SpecActive == Init /\ [][NextActive]_vars

(* ----------- analyze_and_code_items on more than 100 rows -------------- *)

\* the numbers of rows uploaded: the most a single request takes, two
\* batches (one of them of a single row, or both full) and three batches
BatchRowCounts == {BATCH_SIZE, BATCH_SIZE + 1, 2 * BATCH_SIZE, 2 * BATCH_SIZE + 1}

\* the k-th row of such an upload
BatchRow(k) == [RowPipe EXCEPT !.original_label = <<"r">> \o Digits(k)]

\* the steps of a run that has written progress 30
StepsBeforeAnalyze ==
    [k \in 1..7 |->
        Step(<<"update_job_running", "create_codebook", "update_job_15", "set_codebook_id",
               "create_version", "update_job_25", "update_job_30">>[k], TRUE)]

\* one run that has just written progress 30 and is about to call
\* analyze_and_code_items with the rows of its upload
InitBatch ==
    \E n \in BatchRowCounts :
        /\ jobs = <<[NewJob(1, "running") EXCEPT !.progress = 30, !.codebook_id = Some(1)]>>
        /\ codebooks = <<NewCodebook(1, <<"n">>, CODEBOOK_TYPE, None)>>
        /\ codebook_versions = <<NewVersion(1, 1, <<"Initial import">>)>>
        /\ codebook_items = <<>>
        /\ requests = <<>>
        /\ activation = <<>>
        /\ run = <<[NewRun(1, [k \in 1..n |-> BatchRow(k)]) EXCEPT
                        !.pc = "analyze", !.codebook = Some(1), !.version = Some(1),
                        !.steps = StepsBeforeAnalyze]>>

NextBatch ==
    \/ \E j \in JobIds : Analyze(j)
    \/ \E j \in JobIds : Progress70(j)
    \/ \E j \in JobIds : Build(j)
    \/ \E j \in JobIds : BulkInsert(j)
    \/ \E j \in JobIds : HandleException(j)

SpecBatch == InitBatch /\ [][NextBatch]_vars

(* ------------------- parse_upload_file on small tables ------------------ *)

\* the column headers of the uploaded tables, as the file spells them
ParseColumnNames ==
    {<<"I", "t", "e", "m">>, <<"d", "e", "s", "c", "r", "i", "p", "t", "i", "o", "n">>,
     <<" ", "D", "e", "s", "c">>, <<"S", "i", "z", "e">>,
     <<"d", "i", "a", "m", "e", "t", "e", "r">>, <<"t", "y", "p", "e">>, <<"f", "o", "o">>}

\* the rows of the uploaded tables, cut to the table's width: text, the floats
\* 12.0 and 12.5, the int 12, missing values and blank text in each position
ParseRows ==
    << <<StrCell(<<"8", "i", "n", " ", "P">>), FloatCell(120), FloatCell(125)>>,
       <<FloatCell(120), StrCell(<<" ", "W", "a", "t", "e", "r", " ">>), NaN>>,
       <<NaN, IntCell(12), StrCell(<<"s", "t", "o", "r", "m", " ", "s", "e", "w", "e", "r">>)>>,
       <<StrCell(<<" ", " ">>), NaN, StrCell(<<" ">>)>> >>

ParseFiles ==
    {[size |-> 2048,
      df |-> [columns |-> columns,
              rows |-> [r \in 1..Len(ParseRows) |-> SubSeq(ParseRows[r], 1, Len(columns))]]] :
        columns \in UNION {[1..w -> ParseColumnNames] : w \in 1..MaxColumns}}

NextParse ==
    /\ Len(requests) < MaxParse
    /\ \E file \in ParseFiles : upload_codebook(AuthContext(1, "client_user"), 1, file)

SpecParse == Init /\ [][NextParse]_vars

(* ---------------------- the access checks of the routes ----------------- *)

\* the roles a caller may carry: the two verify_api_key assigns, and others
\* an AuthContext can be constructed with
AuthRoles == {"admin", "client_user", "user", "Admin"}

AuthClients == {1, 2, 3}

AuthContexts == {AuthContext(client_id, role) : client_id \in AuthClients, role \in AuthRoles}

NextAuth ==
    \/ /\ Len(requests) < MaxRequests
       /\ \E auth \in AuthContexts, client_id \in AuthClients : list_codebooks(auth, client_id)
    \/ /\ Len(requests) < MaxRequests
       /\ \E auth \in AuthContexts : list_clients(auth)

SpecAuth == Init /\ [][NextAuth]_vars

(* ---------------- _build_item_records on bounded inputs ----------------- *)

RECURSIVE SeqsUpTo(_, _)
SeqsUpTo(S, n) ==
    IF n = 0 THEN {<<>>}
    ELSE LET shorter == SeqsUpTo(S, n - 1)
         IN shorter \cup {Append(q, e) : q \in {t \in shorter : Len(t) = n - 1}, e \in S}

CodeA == <<"A">>
CodeA1 == <<"A", "-", "1">>
LabelPipe == <<"8", "i", "n", " ", "P">>
LabelPipeLoose == <<" ", "8", "I", "N", " ", "p", " ">>

\* the model items of the reconciler runs: duplicate, suffix-shaped, missing,
\* UNCLASSIFIED-shaped and empty codes; labels that match a row only after
\* strip().lower(); an application outside the vocabulary, an empty and a
\* missing one; a null label
ReconModelItems ==
    {[code |-> CodeA],
     [code |-> CodeA1],
     [csi_division |-> <<"3", "3">>],
     [code |-> UNCLASSIFIED \o <<"0", "0", "0", "1">>],
     [code |-> UNCLASSIFIED \o <<"0", "0", "0", "2">>],
     [code |-> CodeA, original_label |-> LabelPipeLoose, application |-> <<"g", "a", "s">>,
      description |-> <<>>],
     [code |-> <<>>, original_label |-> LabelPipe, application |-> APP_WATER,
      metadata |-> <<"diameter=8">>],
     [code |-> CodeA, original_label |-> LabelPipe],
     [code |-> CodeA1, original_label |-> LabelPipe, application |-> <<>>],
     [code |-> CodeA1, original_label |-> None]}

ReconRows ==
    {<<RowPipe, RowPipe>>,
     <<[original_label |-> LabelPipe, description |-> <<"d", "1">>,
        metadata |-> <<"diameter=6">>, application |-> APP_STORM_SEWER],
       [original_label |-> <<"8", "I", "N", " ", "P">>, description |-> <<"d", "2">>,
        metadata |-> None, application |-> None]>>,
     <<[original_label |-> LabelPipe, description |-> <<"d", "3">>,
        metadata |-> None, application |-> APP_STORM_SEWER]>>}

\* the steps of a run that has written progress 70
StepsBeforeBuild ==
    [k \in 1..9 |->
        Step(<<"update_job_running", "create_codebook", "update_job_15", "set_codebook_id",
               "create_version", "update_job_25", "update_job_30", "analyze",
               "update_job_70">>[k], TRUE)]

\* one run that has just written progress 70: its analysis returned llm_items;
\* the run goes on to build the item records and to insert them
InitRecon ==
    \E llm_items \in SeqsUpTo(ReconModelItems, MaxItems), items \in ReconRows :
        /\ jobs = <<[NewJob(1, "running") EXCEPT !.progress = 70, !.codebook_id = Some(1)]>>
        /\ codebooks = <<NewCodebook(1, <<"n">>, CODEBOOK_TYPE, None)>>
        /\ codebook_versions = <<NewVersion(1, 1, <<"Initial import">>)>>
        /\ codebook_items = <<>>
        /\ requests = <<>>
        /\ activation = <<>>
        /\ run = <<[NewRun(1, items) EXCEPT
                        !.pc = "build_item_records", !.codebook = Some(1),
                        !.version = Some(1),
                        !.llm_result = Some([items |-> llm_items]),
                        !.steps = StepsBeforeBuild]>>

NextRecon ==
    \/ \E j \in JobIds : Build(j)
    \/ \E j \in JobIds : BulkInsert(j)

SpecRecon == InitRecon /\ [][NextRecon]_vars

(* --------------------------- the read routes --------------------------- *)

\* what a read route answered: the caller, the client that owns what was
\* asked for (Null when it does not exist), the outcome and the data returned
Reply(route, auth, client_id, outcome, data) ==
    [route |-> route, auth |-> auth, client_id |-> client_id, outcome |-> outcome,
     data |-> data]

Answer(reply) ==
    /\ requests' = Append(requests, reply)
    /\ UNCHANGED <<store, run, activation>>

\* CodebookItemRepository.list_items without filters: the rows of the version
list_items(version_id) ==
    SelectSeq(codebook_items, LAMBDA row : row.version_id = version_id)

\* get_job_status: fetch the job, check access to its client, return the job
get_job_status(auth, job_id) ==
    IF job_id \notin 1..Len(jobs)
    THEN Answer(Reply("get_job_status", auth, Null, "JOB_NOT_FOUND", Null))
    ELSE LET job == jobs[job_id]
             denied == require_client_access(auth, job.client_id)
         IN IF denied # Null
            THEN Answer(Reply("get_job_status", auth, Some(job.client_id), denied[1], Null))
            ELSE Answer(Reply("get_job_status", auth, Some(job.client_id), "ok", Some(job)))

\* the active version list_versions lists first (version_number descending)
ActiveVersion(codebook_id) ==
    LET active == {v \in 1..Len(codebook_versions) :
                      /\ codebook_versions[v].codebook_id = codebook_id
                      /\ codebook_versions[v].is_active}
    IN IF active = {} THEN None
       ELSE codebook_versions[CHOOSE v \in active : \A w \in active :
                codebook_versions[w].version_number <= codebook_versions[v].version_number]

\* get_codebook: fetch the codebook, check access to its client, return the
\* codebook with its active version
get_codebook(auth, codebook_id) ==
    IF codebook_id \notin 1..Len(codebooks)
    THEN Answer(Reply("get_codebook", auth, Null, "CODEBOOK_NOT_FOUND", Null))
    ELSE LET codebook == codebooks[codebook_id]
             denied == require_client_access(auth, codebook.client_id)
         IN IF denied # Null
            THEN Answer(Reply("get_codebook", auth, Some(codebook.client_id), denied[1], Null))
            ELSE Answer(Reply("get_codebook", auth, Some(codebook.client_id), "ok",
                              Some([codebook |-> codebook,
                                    active_version |-> ActiveVersion(codebook_id)])))

\* the client whose codebook the version belongs to
VersionOwner(version_id) == codebooks[codebook_versions[version_id].codebook_id].client_id

\* list_version_items: fetch the version, then return its items; the handler
\* takes auth and makes no call of require_client_access
list_version_items(auth, version_id) ==
    IF version_id \notin 1..Len(codebook_versions)
    THEN Answer(Reply("list_version_items", auth, Null, "RESOURCE_NOT_FOUND", Null))
    ELSE Answer(Reply("list_version_items", auth, Some(VersionOwner(version_id)), "ok",
                      Some(list_items(version_id))))

\* export_version_csv: fetch the version, then stream its items as CSV; the
\* handler takes auth and makes no call of require_client_access
export_version_csv(auth, version_id) ==
    IF version_id \notin 1..Len(codebook_versions)
    THEN Answer(Reply("export_version_csv", auth, Null, "RESOURCE_NOT_FOUND", Null))
    ELSE Answer(Reply("export_version_csv", auth, Some(VersionOwner(version_id)), "ok",
                      Some(list_items(version_id))))

\* the callers of the read routes
AccessAuths == {AuthContext(1, "client_user"), AuthContext(2, "client_user"),
                AuthContext(2, "admin")}

\* one run of client 1 that has just written progress 70, its analysis having
\* returned no item or two: it goes on to build and insert its item records
\* while callers read
InitAccess ==
    \E llm_items \in {<<>>, <<ItemWater, ItemDup>>} :
        /\ jobs = <<[NewJob(1, "running") EXCEPT !.progress = 70, !.codebook_id = Some(1)]>>
        /\ codebooks = <<NewCodebook(1, <<"n">>, CODEBOOK_TYPE, None)>>
        /\ codebook_versions = <<NewVersion(1, 1, <<"Initial import">>)>>
        /\ codebook_items = <<>>
        /\ requests = <<>>
        /\ activation = <<>>
        /\ run = <<[NewRun(1, <<RowPipe, RowPipe>>) EXCEPT
                        !.pc = "build_item_records", !.codebook = Some(1),
                        !.version = Some(1),
                        !.llm_result = Some([items |-> llm_items]),
                        !.steps = StepsBeforeBuild]>>

NextAccess ==
    \/ \E j \in JobIds : Build(j)
    \/ \E j \in JobIds : BulkInsert(j)
    \/ /\ Len(requests) < MaxRequests
       /\ \E auth \in AccessAuths, job_id \in 1..2 : get_job_status(auth, job_id)
    \/ /\ Len(requests) < MaxRequests
       /\ \E auth \in AccessAuths, codebook_id \in 1..2 : get_codebook(auth, codebook_id)
    \/ /\ Len(requests) < MaxRequests
       /\ \E auth \in AccessAuths, version_id \in 1..2 : list_version_items(auth, version_id)
    \/ /\ Len(requests) < MaxRequests
       /\ \E auth \in AccessAuths, version_id \in 1..2 : export_version_csv(auth, version_id)

SpecAccess == InitAccess /\ [][NextAccess]_vars

(* ------------------------------- claims -------------------------------- *)

\* the except clause of run j has caught an exception
Raised(j) == run[j].exc # Null

\* the call op of run j raised
StepRaised(j, op) == \E k \in 1..Len(run[j].steps) : run[j].steps[k] = Step(op, FALSE)

\* the rows of codebook_items that belong to version v
ItemsOf(v) == SelectSeq(codebook_items, LAMBDA row : row.version_id = v)

\* after the first call that raised, run j made at most one more call, the
\* failure write of the except clause
OnlyFailureWriteAfterRaise(j) ==
    LET s == run[j].steps
        failing == {k \in 1..Len(s) : ~s[k].ok}
    IN /\ failing # {}
       /\ LET first == CHOOSE k \in failing : \A m \in failing : k <= m
          IN /\ s[first].op # "update_job_failed"
             /\ Len(s) <= first + 1
             /\ Len(s) = first + 1 => s[first + 1].op = "update_job_failed"

\* C1 as stated: an exception raised at any step leaves the job failed with
\* error equal to the exception's message, and no later pipeline step runs
C1_Original ==
    \A j \in JobIds :
        (Raised(j) /\ run[j].pc \in {"returned", "propagated"}) =>
            /\ jobs[j].status = "failed"
            /\ jobs[j].error = run[j].exc
            /\ OnlyFailureWriteAfterRaise(j)

\* C1 (amended): an exception raised at any step of process_upload is followed
\* by exactly one more call, the failure write update_job(status=failed,
\* error=str(e)); when that write succeeds the job is failed with error equal
\* to the exception's message, when it raises too the exception leaves
\* process_upload and the job is not failed and has no error; in both cases
\* no other pipeline step (store write or model call) runs after the raise
C1_ExceptionMarksFailed ==
    \A j \in JobIds :
        Raised(j) =>
            /\ OnlyFailureWriteAfterRaise(j)
            /\ run[j].pc \in {"update_job_failed", "returned", "propagated"}
            /\ run[j].pc = "returned" =>
                /\ jobs[j].status = "failed"
                /\ jobs[j].error = run[j].exc
                /\ run[j].steps[Len(run[j].steps)] = Step("update_job_failed", TRUE)
            /\ run[j].pc = "propagated" =>
                /\ jobs[j].status # "failed"
                /\ jobs[j].error = Null
                /\ run[j].steps[Len(run[j].steps)] = Step("update_job_failed", FALSE)

\* a run whose version update raised has returned with the job failed
C1_Witness ==
    \E j \in JobIds :
        /\ StepRaised(j, "update_version")
        /\ run[j].pc = "returned"
        /\ jobs[j].status = "failed"
        /\ jobs[j].error = Some("store error")

\* C2 as stated: the job's status changes only along pending -> running ->
\* completed or pending -> running -> failed
C2_StatusTransitions ==
    [][\A j \in JobIds :
          jobs'[j].status # jobs[j].status =>
              <<jobs[j].status, jobs'[j].status>> \in
                  {<<"pending", "running">>, <<"running", "completed">>,
                   <<"running", "failed">>}]_vars

\* C3 as stated: once the job is completed or failed, the run never changes
\* its status again
C3_TerminalStatus ==
    [][\A j \in JobIds :
          jobs[j].status \in {"completed", "failed"} =>
              jobs'[j].status = jobs[j].status]_vars

ProgressMarks == <<0, 5, 15, 25, 30, 70, 85, 100>>

C5_ResultAndError ==
    \A j \in JobIds :
        /\ jobs[j].result # Null => jobs[j].status = "completed"
        /\ jobs[j].error # Null => jobs[j].status = "failed"
        /\ jobs[j].status = "completed" => jobs[j].result # Null
        /\ jobs[j].status = "failed" => jobs[j].error # Null

\* C6 as stated: when a run has returned, the version it created holds the
\* full reconciled item set and the job is completed, or it holds no item
\* and the job is failed
C6_NoPartialSuccess ==
    \A j \in JobIds :
        (run[j].pc = "returned" /\ run[j].version # Null) =>
            \/ /\ jobs[j].status = "completed"
               /\ run[j].db_items # Null
               /\ ItemsOf(run[j].version[1]) = run[j].db_items[1]
            \/ /\ jobs[j].status = "failed"
               /\ ItemsOf(run[j].version[1]) = <<>>

\* the codebook and version 1 that run j created are in the store
CodebookAndVersionExist(j) ==
    /\ run[j].codebook # Null
    /\ run[j].codebook[1] \in 1..Len(codebooks)
    /\ run[j].version # Null
    /\ run[j].version[1] \in 1..Len(codebook_versions)
    /\ codebook_versions[run[j].version[1]].codebook_id = run[j].codebook[1]
    /\ codebook_versions[run[j].version[1]].version_number = 1

\* C7 as stated: when analyze_and_code_items raises, the job goes pending ->
\* running -> failed with a non-empty error, the codebook and version 1 exist
\* and no item is ever inserted for that version
C7_Original ==
    \A j \in JobIds :
        (StepRaised(j, "analyze") /\ run[j].pc \in {"returned", "propagated"}) =>
            /\ jobs[j].status = "failed"
            /\ jobs[j].error # Null /\ jobs[j].error # Some("")
            /\ CodebookAndVersionExist(j)
            /\ ItemsOf(run[j].version[1]) = <<>>

\* C7 (amended): when analyze_and_code_items raises, the job is running (it
\* was set running from pending by the first step); the codebook and version 1
\* created earlier exist and no item is ever inserted for that version; the
\* job becomes failed with a non-empty error when the failure write of the
\* except clause succeeds, and stays running when that write raises too
C7_AnalyzeFailure ==
    \A j \in JobIds :
        StepRaised(j, "analyze") =>
            /\ run[j].steps[1] = Step("update_job_running", TRUE)
            /\ CodebookAndVersionExist(j)
            /\ ItemsOf(run[j].version[1]) = <<>>
            /\ run[j].pc \in {"update_job_failed", "returned", "propagated"}
            /\ run[j].pc = "returned" =>
                /\ jobs[j].status = "failed"
                /\ jobs[j].error # Null /\ jobs[j].error # Some("")
            /\ run[j].pc \in {"update_job_failed", "propagated"} =>
                jobs[j].status = "running"

\* the analysis of a run raised and the run has returned with the job failed
C7_Witness ==
    \E j \in JobIds :
        /\ StepRaised(j, "analyze")
        /\ run[j].pc = "returned"
        /\ jobs[j].status = "failed"
        /\ jobs[j].progress = 30

\* C8: once a job has been completed (its result is written),
\* result.item_count is the number of items the model returned and the
\* number of item rows stored under result.version_id;
\* result.codebook_id and result.version_id are the codebook and the version 1
\* that this run, and no other, created
C8_ResultCounts ==
    \A j \in JobIds :
        jobs[j].result # Null =>
            LET result == jobs[j].result[1]
            IN /\ result.item_count = Len(Get(run[j].llm_result[1], "items", <<>>))
               /\ result.item_count = Len(ItemsOf(result.version_id))
               /\ result.codebook_id = run[j].codebook[1]
               /\ result.version_id = run[j].version[1]
               /\ CodebookAndVersionExist(j)
               /\ \A other \in JobIds \ {j} :
                    /\ run[other].codebook # run[j].codebook
                    /\ run[other].version # run[j].version

\* a job is completed with two items stored under its version
C8_Witness ==
    \E j \in JobIds :
        /\ jobs[j].status = "completed"
        /\ jobs[j].result[1].item_count = 2
        /\ Len(ItemsOf(jobs[j].result[1].version_id)) = 2

\* the run of job j has built its item records
Built(j) == run[j].db_items # Null

ModelItemsOf(j) == Get(run[j].llm_result[1], "items", <<>>)

\* C9: for any list of model items, _build_item_records returns a list of
\* the same length whose codes are pairwise distinct
C9_UniqueCodes ==
    \A j \in JobIds :
        Built(j) =>
            LET records == run[j].db_items[1]
            IN /\ Len(records) = Len(ModelItemsOf(j))
               /\ \A a, b \in 1..Len(records) :
                    a # b => records[a].code # records[b].code

\* three items proposing the codes A, A, A-1 were reconciled
C9_Witness ==
    \E j \in JobIds :
        /\ Built(j)
        /\ Len(ModelItemsOf(j)) = 3
        /\ \A k \in 1..3 : "code" \in DOMAIN ModelItemsOf(j)[k]
        /\ ModelItemsOf(j)[1].code = CodeA
        /\ ModelItemsOf(j)[2].code = CodeA
        /\ ModelItemsOf(j)[3].code = CodeA1

\* C10 as stated: a model item whose proposed code no other item of the list
\* proposes keeps that code in the output
C10_NonDuplicatesKeepCode ==
    \A j \in JobIds :
        Built(j) =>
            \A a \in 1..Len(ModelItemsOf(j)) :
                LET llm_items == ModelItemsOf(j)
                IN ("code" \in DOMAIN llm_items[a]
                    /\ \A b \in 1..Len(llm_items) \ {a} :
                          "code" \in DOMAIN llm_items[b] =>
                              llm_items[b].code # llm_items[a].code)
                   => run[j].db_items[1][a].code = llm_items[a].code

\* the application of model item a of run j after precedence resolution: the
\* model's value when it is non-empty, else the matched original row's value
ResolvedApplication(j, a) ==
    LET llm_item == ModelItemsOf(j)[a]
        orig == Get(OriginalLookup(run[j].items),
                    Lower(Strip(ItemLabel(llm_item, a))), <<>>)
        own == Get(llm_item, "application", None)
    IN IF own # None /\ own # <<>> THEN own ELSE Get(orig, "application", None)

\* C11: in the records _build_item_records returns, a resolved application
\* that is non-empty and outside {sanitary_sewer, storm_sewer, water, other} is
\* output as exactly other, a value of that set is output unchanged, and an
\* absent or empty one stays absent or empty (it is never turned into other)
C11_ApplicationCoercion ==
    \A j \in JobIds :
        Built(j) =>
            \A a \in 1..Len(ModelItemsOf(j)) :
                LET resolved == ResolvedApplication(j, a)
                    output == run[j].db_items[1][a].application
                IN /\ (resolved # None /\ resolved # <<>> /\ resolved \notin valid_apps)
                        => output = APP_OTHER
                   /\ resolved \in valid_apps => output = resolved
                   /\ (resolved = None \/ resolved = <<>>)
                        => (output = resolved /\ output # APP_OTHER)

\* three items were reconciled: one whose application "gas" became other, one
\* that took storm_sewer from its original row, one that has no application
C11_Witness ==
    \E j \in JobIds :
        /\ Built(j)
        /\ \E a, b, c \in 1..Len(ModelItemsOf(j)) :
            /\ Get(ModelItemsOf(j)[a], "application", None) = <<"g", "a", "s">>
            /\ run[j].db_items[1][a].application = APP_OTHER
            /\ "application" \notin DOMAIN ModelItemsOf(j)[b]
            /\ run[j].db_items[1][b].application = APP_STORM_SEWER
            /\ ResolvedApplication(j, c) = None
            /\ run[j].db_items[1][c].application = None

\* run j has left process_upload, by return or by exception
Ended(j) == run[j].pc \in {"returned", "propagated"}

\* C12 as stated: a run that has returned, normally or by exception, leaves
\* its job completed or failed, never pending or running
C12_Original ==
    \A j \in JobIds : Ended(j) => jobs[j].status \in {"completed", "failed"}

\* C12 (amended): provided the process does not crash, every call of
\* process_upload terminates; a run that returns normally leaves its job
\* completed or failed; a run that ends by exception (the failure write of the
\* except clause raised too) leaves the job in the status it had, pending,
\* running or completed, with no error recorded
C12_Terminates ==
    /\ \A j \in 1..MaxUploads : (j \in JobIds) ~> (j \in JobIds /\ Ended(j))
    /\ [](\A j \in JobIds :
            /\ run[j].pc = "returned" => jobs[j].status \in {"completed", "failed"}
            /\ run[j].pc = "propagated" =>
                /\ jobs[j].status \in {"pending", "running", "completed"}
                /\ jobs[j].error = Null)

\* one run has returned with its job completed and another has ended by
\* exception with its job still running
C12_Witness ==
    \E j, k \in JobIds :
        /\ run[j].pc = "returned" /\ jobs[j].status = "completed"
        /\ run[k].pc = "propagated" /\ jobs[k].status = "running"

\* the versions of codebook c
VersionsOf(c) == {v \in 1..Len(codebook_versions) : codebook_versions[v].codebook_id = c}

\* C13 as stated: in every reachable state, under any interleaving of version
\* creation and set_active_version calls, each codebook that has at least one
\* version has exactly one version with is_active true
C13_OneActiveVersion ==
    \A c \in 1..Len(codebooks) :
        VersionsOf(c) # {} =>
            Cardinality({v \in VersionsOf(c) : codebook_versions[v].is_active}) = 1

\* the runs that created codebook c, and those that created version v
CreatorsOfCodebook(c) == {j \in JobIds : run[j].codebook = Some(c)}
CreatorsOfVersion(v) == {j \in JobIds : run[j].version = Some(v)}

\* C14: with the runs of several uploads interleaved, every codebook and
\* every version was created by exactly one run, a version is version 1 of
\* its run's codebook, the items stored under a version are exactly the
\* records its run built (or none yet), and their codes are pairwise distinct
C14_RunsWriteOwnVersion ==
    /\ \A c \in 1..Len(codebooks) : Cardinality(CreatorsOfCodebook(c)) = 1
    /\ \A k \in 1..Len(codebook_items) :
            codebook_items[k].version_id \in 1..Len(codebook_versions)
    /\ \A v \in 1..Len(codebook_versions) :
        /\ Cardinality(CreatorsOfVersion(v)) = 1
        /\ \A j \in CreatorsOfVersion(v) :
            /\ codebook_versions[v].codebook_id = run[j].codebook[1]
            /\ codebook_versions[v].version_number = 1
            /\ ItemsOf(v) # <<>> => Built(j) /\ ItemsOf(v) = run[j].db_items[1]
        /\ \A a, b \in 1..Len(ItemsOf(v)) :
                a # b => ItemsOf(v)[a].code # ItemsOf(v)[b].code

\* two runs have each stored several items under their own version, and the
\* second run inserted before the first
C14_Witness ==
    /\ Len(codebook_versions) = 2
    /\ Len(ItemsOf(1)) >= 2
    /\ Len(ItemsOf(2)) >= 2
    /\ codebook_items[1].version_id = 2

\* the request a step has just logged
Logged == requests'[Len(requests')]

\* C15: a request of upload_codebook that ends in an error (file too large,
\* too many rows, empty file or any other) leaves every table and the set of
\* scheduled tasks as they were; an accepted one adds exactly one job, in
\* status pending with progress 0, and schedules one process_upload for it that
\* has not yet made a call; as long as that task has made no call the job is
\* still pending, and there are as many jobs as accepted uploads
C15_ValidationBeforeJob ==
    /\ [][requests' # requests =>
            IF Logged.outcome = "accepted"
            THEN /\ Len(jobs') = Len(jobs) + 1
                 /\ SubSeq(jobs', 1, Len(jobs)) = jobs
                 /\ jobs'[Len(jobs')].status = "pending"
                 /\ jobs'[Len(jobs')].progress = 0
                 /\ Logged.job = Some(Len(jobs'))
                 /\ Len(run') = Len(run) + 1
                 /\ SubSeq(run', 1, Len(run)) = run
                 /\ run'[Len(run')].steps = <<>>
                 /\ run'[Len(run')].pc = "update_job_running"
                 /\ UNCHANGED <<codebooks, codebook_versions, codebook_items>>
            ELSE /\ Logged.job = Null
                 /\ UNCHANGED <<store, run>>]_vars
    /\ [](/\ Len(jobs) = Cardinality({k \in 1..Len(requests) : requests[k].outcome = "accepted"})
          /\ Len(run) = Len(jobs)
          /\ \A j \in JobIds : run[j].steps = <<>> => jobs[j].status = "pending")

\* an upload of too many rows was rejected and the next upload accepted: one
\* job exists
C15_Witness ==
    /\ Len(requests) = 2
    /\ requests[1].outcome = "TOO_MANY_ROWS"
    /\ requests[2].outcome = "accepted"
    /\ Len(jobs) = 1
    /\ jobs[1].status = "pending"

\* the sum of f over the set S of its arguments
RECURSIVE SumOver(_, _)
SumOver(f, S) ==
    IF S = {} THEN 0
    ELSE LET x == CHOOSE y \in S : TRUE IN f[x] + SumOver(f, S \ {x})

\* the number of items the answer to request b of run j carries
BatchItemCount(j, b) == Len(Get(run[j].responses[1][b].body, "items", <<>>))

\* C16: when analyze_and_code_items returns for more than 100 rows, its items
\* list is as long as the items of all batch answers together, total_items of
\* its analysis_details is that length, the counts of applications_breakdown
\* add up to that length, and an item with no or an empty application is
\* counted under other, whatever summary and details the batch answers carried
C16_BatchTotals ==
    \A j \in JobIds :
        (run[j].llm_result # Null /\ Len(run[j].items) > BATCH_SIZE) =>
            LET result == run[j].llm_result[1]
                total == SumOver([b \in 1..NumBatches(run[j].items) |-> BatchItemCount(j, b)],
                                 1..NumBatches(run[j].items))
                breakdown == result.analysis_details.applications_breakdown
                unset == {k \in 1..Len(result.items) :
                            \/ ~Truthy(Get(result.items[k], "application", None))
                            \/ Get(result.items[k], "application", None) \in {None, APP_OTHER}}
            IN /\ Len(result.items) = total
               /\ result.analysis_details.total_items = total
               /\ SumOver(breakdown, DOMAIN breakdown) = total
               /\ unset # {} => /\ APP_OTHER \in DOMAIN breakdown
                                /\ breakdown[APP_OTHER] = Cardinality(unset)

\* three batches were answered with 3, 0 and 2 items, the first answer
\* reporting total_items 7
C16_Witness ==
    \E j \in JobIds :
        /\ run[j].llm_result # Null
        /\ NumBatches(run[j].items) = 3
        /\ BatchItemCount(j, 1) = 3
        /\ run[j].responses[1][1].body.analysis_details.total_items = 7
        /\ BatchItemCount(j, 2) = 0
        /\ BatchItemCount(j, 3) = 2
        /\ run[j].llm_result[1].analysis_details.total_items = 5

\* the metadata entries of the items parse_upload_file returned for job j
MetadataEntries(j) ==
    UNION {{[key |-> run[j].items[k].metadata[2 * e - 1], value |-> run[j].items[k].metadata[2 * e]] :
                e \in 1..(Len(run[j].items[k].metadata) \div 2)} :
            k \in {i \in 1..Len(run[j].items) : run[j].items[i].metadata # None}}

\* C17 as stated: no entry of the metadata normalize_items produces, the
\* entry under the key diameter included, holds a float that is mathematically
\* integral (12.0 is stored as the int 12), and a float that is not integral
\* (12.5) is a value of the table
C17_IntegralFloatsAsInts ==
    \A j \in JobIds : \A entry \in MetadataEntries(j) :
        entry.value.kind = "float" =>
            /\ entry.value.num % 10 # 0
            /\ \E r \in 1..Len(ParseRows), c \in 1..MaxColumns : ParseRows[r][c] = entry.value

\* the requests for which parse_upload_file called detect_columns
Detected == {k \in 1..Len(requests) : requests[k].column_mapping # Null}

C19_AccessRules ==
    \A k \in 1..Len(requests) :
        LET auth == requests[k].auth
            outcome == requests[k].outcome
        IN /\ requests[k].route = "list_codebooks" =>
                LET c == requests[k].client_id[1]
                IN /\ can_access_client(auth, c) <=> (auth.role = "admin" \/ auth.client_id = c)
                   /\ outcome = "CLIENT_ACCESS_DENIED" <=> ~can_access_client(auth, c)
                   /\ outcome = "ok" <=> (auth.role = "admin" \/ auth.client_id = c)
           /\ requests[k].route = "list_clients" =>
                /\ outcome = "INSUFFICIENT_PERMISSIONS" <=> auth.role # "admin"
                /\ outcome = "ok" <=> auth.role = "admin"

\* an admin of client 1 listed the codebooks of client 2, and a caller whose
\* role is spelt Admin was refused the list of clients
C19_Witness ==
    /\ Len(requests) = 2
    /\ requests[1].route = "list_codebooks"
    /\ requests[1].auth = AuthContext(1, "admin")
    /\ requests[1].client_id = Some(2)
    /\ requests[1].outcome = "ok"
    /\ requests[2].route = "list_clients"
    /\ requests[2].auth.role = "Admin"
    /\ requests[2].outcome = "INSUFFICIENT_PERMISSIONS"

\* the positions of the calls of analyze_and_code_items among run j's calls
AnalyzeCalls(j) == {k \in 1..Len(run[j].steps) : run[j].steps[k].op = "analyze"}

\* C20: a job's progress implies the effects of the steps before that mark:
\* from 15 on the run's codebook is in the store; from 25 on the job row
\* carries that codebook's id and version 1 of it exists; from 70 on the
\* analysis has returned; from 85 on the version holds exactly the records
\* built; while the status is completed the version carries the analysis
\* summary and details; and the model is called only right after the
\* progress-30 write, with progress 30 in the store, and before the
\* progress-70 write
C20_ProgressImpliesEffects ==
    \A j \in JobIds :
        LET r == run[j]
            progress == jobs[j].progress
        IN /\ progress >= 15 =>
                /\ r.codebook # Null
                /\ r.codebook[1] \in 1..Len(codebooks)
           /\ progress >= 25 =>
                /\ jobs[j].codebook_id = r.codebook
                /\ r.version # Null
                /\ r.version[1] \in 1..Len(codebook_versions)
                /\ codebook_versions[r.version[1]].codebook_id = r.codebook[1]
                /\ codebook_versions[r.version[1]].version_number = 1
           /\ progress >= 70 =>
                /\ r.llm_result # Null
                /\ \E k \in AnalyzeCalls(j) : r.steps[k].ok
           /\ progress >= 85 =>
                /\ Built(j)
                /\ ItemsOf(r.version[1]) = r.db_items[1]
           /\ jobs[j].status = "completed" =>
                /\ progress = 100
                /\ codebook_versions[r.version[1]].analysis_summary =
                        Get(r.llm_result[1], "analysis_summary", None)
                /\ codebook_versions[r.version[1]].analysis_details =
                        Get(r.llm_result[1], "analysis_details", None)
                /\ codebook_versions[r.version[1]].prompt_version = <<"analysis_v1.0">>
           /\ At(j, "analyze") => progress = 30
           /\ Cardinality(AnalyzeCalls(j)) <= 1
           /\ \A k \in AnalyzeCalls(j) :
                /\ k > 1
                /\ r.steps[k - 1] = Step("update_job_30", TRUE)
                /\ k < Len(r.steps) =>
                        r.steps[k + 1].op = (IF r.steps[k].ok THEN "update_job_70"
                                                             ELSE "update_job_failed")
                /\ progress < 70 <=> ~(k < Len(r.steps) /\ r.steps[k + 1] = Step("update_job_70", TRUE))

\* a job is completed with progress 100 and its version holds the items built
\* and the analysis summary
C20_Witness ==
    \E j \in JobIds :
        /\ jobs[j].status = "completed"
        /\ jobs[j].progress = 100
        /\ Len(ItemsOf(run[j].version[1])) >= 2
        /\ codebook_versions[run[j].version[1]].analysis_summary = <<"s">>

\* n written with at least four digits, zeros in front
FourDigits(n) ==
    (IF n < 10 THEN <<"0", "0", "0">> ELSE IF n < 100 THEN <<"0", "0">>
     ELSE IF n < 1000 THEN <<"0">> ELSE <<>>) \o Digits(n)

\* the codes of the records before position pos
EmittedBefore(records, pos) == {records[m].code : m \in 1..(pos - 1)}

\* C21: the record at position pos (0-based index pos-1) carries the item's
\* proposed code, or UNCLASSIFIED- and the four-digit pos when the item has
\* no code, if no earlier record carries it; otherwise that candidate with
\* -k appended, for the least k >= 1 for which no earlier record carries the
\* result; the search ends for every list (Build always yields the records)
C21_CandidateAndSuffix ==
    \A j \in JobIds :
        Built(j) =>
            \A pos \in 1..Len(ModelItemsOf(j)) :
                LET records == run[j].db_items[1]
                    llm_item == ModelItemsOf(j)[pos]
                    candidate == IF "code" \in DOMAIN llm_item THEN llm_item.code
                                 ELSE UNCLASSIFIED \o FourDigits(pos)
                    earlier == EmittedBefore(records, pos)
                    Suffixed(k) == candidate \o <<"-">> \o Digits(k)
                IN IF candidate \notin earlier
                   THEN records[pos].code = candidate
                   ELSE \E k \in 1..pos :
                            /\ records[pos].code = Suffixed(k)
                            /\ Suffixed(k) \notin earlier
                            /\ \A m \in 1..(k - 1) : Suffixed(m) \in earlier

\* an item proposing UNCLASSIFIED-0002 came first and the second item, which
\* has no code, got UNCLASSIFIED-0002-1
C21_Witness ==
    \E j \in JobIds :
        /\ Built(j)
        /\ Len(ModelItemsOf(j)) >= 2
        /\ "code" \notin DOMAIN ModelItemsOf(j)[2]
        /\ run[j].db_items[1][1].code = UNCLASSIFIED \o <<"0", "0", "0", "2">>
        /\ run[j].db_items[1][2].code = UNCLASSIFIED \o <<"0", "0", "0", "2", "-", "1">>

\* the uploaded rows of run j whose lower-cased, trimmed label is that of
\* model item a (a row with a blank label matches nothing)
MatchingRows(j, a) ==
    LET key == Lower(Strip(ItemLabel(ModelItemsOf(j)[a], a)))
    IN {k \in 1..Len(run[j].items) :
            key # <<>> /\ Lower(Strip(run[j].items[k].original_label)) = key}

\* the field of the matched row (the last matching one), None without a match
FallbackField(j, a, field) ==
    IF MatchingRows(j, a) = {} THEN None
    ELSE LET last == CHOOSE k \in MatchingRows(j, a) : \A m \in MatchingRows(j, a) : m <= k
         IN Get(run[j].items[last], field, None)

\* the model's value of the field, None when the item does not carry it
ModelField(j, a, field) == Get(ModelItemsOf(j)[a], field, None)

\* C22 as stated: record a is built from model item a, and each of
\* description, application and metadata is the model's value when the model
\* provides one, else the matched original row's value, else absent
C22_Original ==
    \A j \in JobIds :
        Built(j) =>
            /\ Len(run[j].db_items[1]) = Len(ModelItemsOf(j))
            /\ \A a \in 1..Len(ModelItemsOf(j)) :
                \A field \in {"description", "application", "metadata"} :
                    run[j].db_items[1][a][field] =
                        IF ModelField(j, a, field) # None THEN ModelField(j, a, field)
                        ELSE FallbackField(j, a, field)

\* C22: record a is built from model item a (same length, same order, the
\* item's label, csi_division and csi_section); description and metadata are
\* the model's value when it is non-empty, else the matched original row's
\* value, else absent; application is resolved the same way and then, when
\* non-empty and outside the vocabulary, replaced by other
C22_FieldPrecedence ==
    \A j \in JobIds :
        Built(j) =>
            /\ Len(run[j].db_items[1]) = Len(ModelItemsOf(j))
            /\ \A a \in 1..Len(ModelItemsOf(j)) :
                LET record == run[j].db_items[1][a]
                    Resolved(field) ==
                        IF ModelField(j, a, field) \notin {None, <<>>}
                        THEN ModelField(j, a, field)
                        ELSE FallbackField(j, a, field)
                IN /\ record.original_label = ItemLabel(ModelItemsOf(j)[a], a)
                   /\ record.csi_division = ModelField(j, a, "csi_division")
                   /\ record.csi_section = ModelField(j, a, "csi_section")
                   /\ record.description = Resolved("description")
                   /\ record.metadata = Resolved("metadata")
                   /\ record.application =
                        IF Resolved("application") \in valid_apps \cup {None, <<>>}
                        THEN Resolved("application") ELSE APP_OTHER

\* a model item carrying metadata but no description was matched, by its
\* label, to a row with a description: the record has the model's metadata
\* and the row's description
C22_Witness ==
    \E j \in JobIds :
        /\ Built(j)
        /\ \E a \in 1..Len(ModelItemsOf(j)) :
            /\ "description" \notin DOMAIN ModelItemsOf(j)[a]
            /\ "metadata" \in DOMAIN ModelItemsOf(j)[a]
            /\ MatchingRows(j, a) # {}
            /\ run[j].db_items[1][a].metadata = <<"diameter=8">>
            /\ run[j].db_items[1][a].description \in {<<"d", "2">>, <<"d", "3">>}

\* the mapping detect_columns starts its scan with
NoRoles == [label |-> None, description |-> None, diameter |-> None, application |-> None]

\* the role-by-role rule: the first column, in file order, whose name is in
\* the role's list and whose position no earlier role has claimed (0: none)
FirstUnclaimed(columns, names, claimed) ==
    LET matching == {c \in 1..Len(columns) \ claimed : Strip(Lower(columns[c])) \in names}
    IN IF matching = {} THEN 0 ELSE CHOOSE c \in matching : \A m \in matching : c <= m

RoleByRole(columns) ==
    LET label == FirstUnclaimed(columns, LABEL_COLUMNS, {})
        description == FirstUnclaimed(columns, DESCRIPTION_COLUMNS, {label})
        diameter == FirstUnclaimed(columns, DIAMETER_COLUMNS, {label, description})
        application == FirstUnclaimed(columns, APPLICATION_COLUMNS,
                                      {label, description, diameter})
        Name(c) == IF c = 0 THEN None ELSE columns[c]
    IN [label |-> Name(label), description |-> Name(description),
        diameter |-> Name(diameter), application |-> Name(application)]

\* C23: for every list of column names the scan of detect_columns assigns
\* the roles as the role-by-role rule does, the mapping detect_columns returns is
\* that assignment after the label fallback and the clearing of description,
\* and before the fallback a name is assigned to no more roles than there are
\* columns carrying it (no column serves two roles)
C23_ScanIsRoleByRole ==
    \A k \in Detected :
        LET columns == requests[k].df[1].columns
            scanned == DetectLoop(columns, 1, NoRoles)
            by_role == RoleByRole(columns)
            with_label == IF by_role.label = None /\ Len(columns) > 0
                          THEN [by_role EXCEPT !.label = columns[1]] ELSE by_role
        IN /\ scanned = by_role
           /\ requests[k].column_mapping[1] =
                IF with_label.label = with_label.description
                THEN [with_label EXCEPT !.description = None] ELSE with_label
           /\ \A name \in {scanned[role] : role \in DOMAIN scanned} \ {None} :
                Cardinality({role \in DOMAIN scanned : scanned[role] = name})
                    <= Cardinality({c \in 1..Len(columns) : columns[c] = name})

\* a table whose columns are desc, description and size: description, listed
\* for both label and description, became label, desc description and size
\* diameter
C23_Witness ==
    \E k \in Detected :
        /\ requests[k].df[1].columns =
                << <<"d", "e", "s", "c">>, <<"d", "e", "s", "c", "r", "i", "p", "t", "i", "o", "n">>,
                   <<"s", "i", "z", "e">> >>
        /\ requests[k].column_mapping[1] =
                [label |-> <<"d", "e", "s", "c", "r", "i", "p", "t", "i", "o", "n">>,
                 description |-> <<"d", "e", "s", "c">>,
                 diameter |-> <<"s", "i", "z", "e">>, application |-> None]

\* the uploads parse_upload_file returned items for
Parsed == {k \in Detected : requests[k].outcome = "accepted"}

\* the label cell of row r of the table of request k
LabelCellOf(k, r) ==
    Cell(requests[k].df[1], requests[k].df[1].rows[r], requests[k].column_mapping[1].label)

\* the rows of that table, in file order, whose label cell is neither null
\* nor blank after trimming
LabelledRows(k) ==
    SelectSeq([r \in 1..Len(requests[k].df[1].rows) |-> r],
              LAMBDA r : NotNa(LabelCellOf(k, r)) /\ Strip(Str(LabelCellOf(k, r))) # <<>>)

\* C24: normalize_items returns one record for each row whose label cell is
\* neither null nor blank after trimming, in file order, and none for the
\* other rows; every record's original_label is that cell's text trimmed and
\* not empty, and its metadata is either None or a non-empty map
C24_OneRecordPerLabelledRow ==
    \A k \in Parsed :
        LET items == run[requests[k].job[1]].items
            labelled == LabelledRows(k)
        IN /\ Len(items) = Len(labelled)
           /\ \A i \in 1..Len(items) :
                /\ items[i].original_label = Strip(Str(LabelCellOf(k, labelled[i])))
                /\ items[i].original_label # <<>>
                /\ Strip(items[i].original_label) = items[i].original_label
                /\ items[i].metadata # <<>>
                /\ items[i].metadata # None => Len(items[i].metadata) >= 2

\* a table with the single column Item, whose third row has a null and whose
\* fourth a blank label, was accepted with the items of rows 1 and 2, both
\* without metadata
C24_Witness ==
    \E k \in Parsed :
        /\ requests[k].df[1].columns = << <<"i", "t", "e", "m">> >>
        /\ Len(requests[k].df[1].rows) = 4
        /\ LabelledRows(k) = <<1, 2>>
        /\ Len(run[requests[k].job[1]].items) = 2
        /\ run[requests[k].job[1]].items[2].original_label = <<"1", "2", ".", "0">>
        /\ run[requests[k].job[1]].items[2].metadata = None

\* the items of the answers to requests b, b+1, ... of run j, concatenated
RECURSIVE AnswersFrom(_, _)
AnswersFrom(j, b) ==
    IF b > Len(run[j].responses[1]) THEN <<>>
    ELSE Get(run[j].responses[1][b].body, "items", <<>>) \o AnswersFrom(j, b + 1)

\* C25: analyze_and_code_items with at most 100 rows issues one request,
\* which carries all rows; with n > 100 rows its k-th request carries rows
\* 100(k-1)+1 .. min(100k, n) in input order, and when the call returns it
\* has issued ceil(n/100) requests, of at most 100 rows each, that carry
\* every row once, and it returns the answers' items concatenated in batch order
C25_BatchesCoverRows ==
    \A j \in JobIds :
        run[j].sent # Null =>
            LET items == run[j].items
                n == Len(items)
                sent == run[j].sent[1]
                First(k) == 100 * (k - 1) + 1
                Last(k) == IF 100 * k < n THEN 100 * k ELSE n
            IN IF n <= 100
               THEN sent = <<items>>
               ELSE /\ \A k \in 1..Len(sent) :
                        /\ sent[k] = [i \in 1..(Last(k) - First(k) + 1) |-> items[First(k) + i - 1]]
                        /\ Len(sent[k]) \in 1..100
                    /\ run[j].llm_result # Null =>
                        /\ Len(sent) * 100 >= n
                        /\ (Len(sent) - 1) * 100 < n
                        /\ SumOver([k \in 1..Len(sent) |-> Len(sent[k])], 1..Len(sent)) = n
                        /\ \A i \in 1..n : sent[((i - 1) \div 100) + 1][((i - 1) % 100) + 1] = items[i]
                        /\ run[j].llm_result[1].items = AnswersFrom(j, 1)

\* 201 rows went out in three requests of 100, 100 and 1 rows, and the call
\* returned the five items of the three answers in batch order
C25_Witness ==
    \E j \in JobIds :
        /\ run[j].llm_result # Null
        /\ Len(run[j].items) = 201
        /\ Len(run[j].sent[1]) = 3
        /\ Len(run[j].sent[1][2]) = 100
        /\ run[j].sent[1][3] = <<BatchRow(201)>>
        /\ run[j].llm_result[1].items = <<ItemDup, ItemDup, ItemWater, ItemEmptyApp, ItemDup>>

\* the requests of run j's analyze call whose model call fails
FailingRequests(j) ==
    {b \in 1..Len(run[j].responses[1]) : run[j].responses[1][b].kind # "json"}

\* C26: when the model call of some batch fails, analyze_and_code_items
\* raises at the first such batch k: it has issued exactly the requests 1..k,
\* each once (none after k, none repeated), it returns no items, the run
\* builds and inserts no record, its version holds no item, and the only
\* call the run still makes is the failure write
C26_FailedBatchAborts ==
    \A j \in JobIds :
        (run[j].responses # Null /\ FailingRequests(j) # {}) =>
            LET k == CHOOSE b \in FailingRequests(j) : \A m \in FailingRequests(j) : b <= m
                sent == run[j].sent[1]
            IN /\ StepRaised(j, "analyze")
               /\ Len(sent) = k
               /\ \A a, b \in 1..Len(sent) : a # b => sent[a] # sent[b]
               /\ \A b \in 1..Len(sent) : sent[b] = Batch(run[j].items, b)
               /\ run[j].llm_result = Null
               /\ run[j].db_items = Null
               /\ ItemsOf(run[j].version[1]) = <<>>
               /\ OnlyFailureWriteAfterRaise(j)
               /\ run[j].pc = "returned" => jobs[j].status = "failed" /\ jobs[j].error # Null

\* of three batches the first was answered with items and the second failed:
\* two requests went out, the run returned and the job is failed
C26_Witness ==
    \E j \in JobIds :
        /\ run[j].responses # Null
        /\ Len(run[j].responses[1]) = 3
        /\ run[j].responses[1][1].kind = "json"
        /\ Len(Get(run[j].responses[1][1].body, "items", <<>>)) = 3
        /\ run[j].responses[1][2] = ApiError
        /\ run[j].responses[1][3].kind = "json"
        /\ Len(run[j].sent[1]) = 2
        /\ run[j].pc = "returned"
        /\ jobs[j].status = "failed"
        /\ codebook_items = <<>>

\* C27 as stated: when the model's payload is not JSON, or is JSON but not an
\* object, _analyze_batch raises LLMAPIError with the code INVALID_JSON; it
\* raises with the code API_ERROR only when the external call itself failed;
\* either way the run makes no further call but the failure write, which sets
\* the job's error
C27_ErrorCodes ==
    \A j \in JobIds :
        run[j].responses # Null =>
            LET response == run[j].responses[1][1]
            IN /\ response.kind \in {"invalid_json", "json_non_object"} =>
                    run[j].error_code = Some("INVALID_JSON")
               /\ run[j].error_code = Some("API_ERROR") => response.kind = "api_error"
               /\ run[j].error_code # Null =>
                    /\ StepRaised(j, "analyze")
                    /\ run[j].llm_result = Null
                    /\ OnlyFailureWriteAfterRaise(j)
                    /\ run[j].pc = "returned" =>
                            /\ jobs[j].status = "failed"
                            /\ jobs[j].error = Some(LLM_ERROR_MESSAGE)

\* the single request of run j was answered with a JSON object without items
AnsweredWithoutItems(j) ==
    /\ run[j].responses # Null
    /\ Len(run[j].responses[1]) = 1
    /\ run[j].responses[1][1].kind = "json"
    /\ "items" \notin DOMAIN run[j].responses[1][1].body

\* C28 as stated: a run whose model answer is an object without items ends
\* with the job completed and result.item_count 0
C28_Original ==
    \A j \in JobIds :
        (AnsweredWithoutItems(j) /\ Ended(j)) =>
            /\ jobs[j].status = "completed"
            /\ jobs[j].result # Null
            /\ jobs[j].result[1].item_count = 0

\* C28: on a JSON object without items _analyze_batch does not fail but
\* returns the object with items set to the empty list; the run then builds
\* no record, makes no bulk insert and stores no item under its version, any
\* result it writes has item_count 0, and it returns with the job completed
\* unless one of its store calls raised (the job is failed only then)
C28_MissingItemsIsEmpty ==
    \A j \in JobIds :
        AnsweredWithoutItems(j) =>
            /\ ~StepRaised(j, "analyze")
            /\ run[j].llm_result # Null
            /\ run[j].llm_result[1] = run[j].responses[1][1].body @@ [items |-> <<>>]
            /\ Built(j) => run[j].db_items[1] = <<>>
            /\ \A k \in 1..Len(run[j].steps) : run[j].steps[k].op # "bulk_insert_items"
            /\ ItemsOf(run[j].version[1]) = <<>>
            /\ jobs[j].result # Null => jobs[j].result[1].item_count = 0
            /\ jobs[j].status = "failed" => Raised(j)
            /\ (run[j].pc = "returned" /\ ~Raised(j)) =>
                    /\ jobs[j].status = "completed"
                    /\ jobs[j].progress = 100
                    /\ jobs[j].result # Null

\* such a run has returned with its job completed and item_count 0
C28_Witness ==
    \E j \in JobIds :
        /\ AnsweredWithoutItems(j)
        /\ run[j].pc = "returned"
        /\ jobs[j].status = "completed"
        /\ jobs[j].result[1].item_count = 0
        /\ codebook_items = <<>>

\* C29 as stated: every route that returns client-owned data (a job, a
\* codebook, the items of a version) returns it only to a caller for whom
\* can_access_client(owning client) is true: a caller who is not admin and
\* belongs to another client never receives a version's items
C29_OwnerOnly ==
    \A k \in 1..Len(requests) :
        LET items_route == requests[k].route \in {"list_version_items", "export_version_csv"}
        IN (/\ requests[k].data # Null
            /\ items_route => Len(requests[k].data[1]) > 0)
           => can_access_client(requests[k].auth, requests[k].client_id[1])

\* the rows of run j that a later row with the same lower-cased, trimmed
\* label follows
ShadowedRows(j) ==
    {m \in 1..Len(run[j].items) :
        \E k \in (m + 1)..Len(run[j].items) :
            /\ Lower(Strip(run[j].items[m].original_label)) # <<>>
            /\ Lower(Strip(run[j].items[k].original_label)) =
                   Lower(Strip(run[j].items[m].original_label))}

\* C30: when several uploaded rows share a lower-cased, trimmed label, every
\* model item with that label that gives no description, application or
\* metadata of its own gets that field from the last such row in upload
\* order, and a field of an earlier such row appears in a record only when
\* the model item or the last matching row carries the same value
C30_LastRowWins ==
    \A j \in JobIds :
        Built(j) =>
            \A a \in 1..Len(ModelItemsOf(j)) :
                LET record == run[j].db_items[1][a]
                    rows == MatchingRows(j, a)
                    last == CHOOSE k \in rows : \A m \in rows : m <= k
                IN /\ Cardinality(rows) >= 2 =>
                        \A field \in {"description", "application", "metadata"} :
                            ModelField(j, a, field) \in {None, <<>>} =>
                                record[field] =
                                    IF field = "application"
                                    THEN ValidatedApplication(run[j].items[last][field])
                                    ELSE run[j].items[last][field]
                   /\ \A m \in ShadowedRows(j) :
                        \A field \in {"description", "application", "metadata"} :
                            (/\ run[j].items[m][field] # None
                             /\ record[field] = run[j].items[m][field])
                            => \/ ModelField(j, a, field) = run[j].items[m][field]
                               \/ /\ rows # {}
                                  /\ run[j].items[last][field] = run[j].items[m][field]

\* two rows share the label 8in p after strip().lower(); a model item with
\* that label and no field of its own got the second row's description and
\* neither the first row's metadata nor its application
C30_Witness ==
    \E j \in JobIds :
        /\ Built(j)
        /\ ShadowedRows(j) = {1}
        /\ run[j].items[1].description = <<"d", "1">>
        /\ \E a \in 1..Len(ModelItemsOf(j)) :
            /\ ModelItemsOf(j)[a] = [code |-> CodeA, original_label |-> LabelPipe]
            /\ MatchingRows(j, a) = {1, 2}
            /\ run[j].db_items[1][a].description = <<"d", "2">>
            /\ run[j].db_items[1][a].metadata = None
            /\ run[j].db_items[1][a].application = None

====
